---- MODULE Spec2Model ----
(***************************************************************************)
(* The SCI segment manager (engines/sci/engine/seg_manager.cpp) as a state *)
(* machine: the segment directory _heap, the script-number map, the class  *)
(* table and the script lifecycle.  Slot id of the directory is the        *)
(* element heap[id + 1] of the sequence heap.                              *)
(***************************************************************************)
EXTENDS Integers, Sequences, FiniteSets, TLC

VARIABLES
    heap,          \* SegManager::_heap: the directory, slot 0 first
    scriptSegMap,  \* SegManager::_scriptSegMap: script number -> segment id, 0 = absent
    classTable,    \* SegManager::_classTable: class number -> [script, reg]
    sciVersion,    \* what getSciVersion() answers; fixed for a run
    world,         \* the resources of the game (vocab 996, the script files); fixed for a run
    err,           \* "none", or the message of the error() that ended the run
    last,          \* the last call made on the manager: its arguments and what it returned
    live,          \* history: per identifier, how often allocSegment returned it since it was last freed
    disc,          \* history: per script, the instantiate/uninstantiate calls made on it since it was unloaded
    writes,        \* history: the copies made into segments since construction
    segIds         \* the cached table segments: _clonesSegId, _listsSegId, _nodesSegId,
                   \* _hunksSegId, _arraysSegId and _bitmapSegId

vars ==
    <<heap, scriptSegMap, classTable, sciVersion, world, err, last, live, disc, writes, segIds>>

----------------------------------------------------------------------------
(* Bounds of the model *)

\* the directory grows to at most MaxHeap slots beside the sentinel
MaxHeap == 3
\* locker counts stay at or below MaxLockers
MaxLockers == 2
\* host call-stack frames available to the recursion of uninstantiateScript
StackLimit == 5
\* at most MaxWrites copies are made into the segments
MaxWrites == 2
\* an entry table grows to at most MaxEntries entries
MaxEntries == 2

----------------------------------------------------------------------------
(* Values *)

\* the end of the free list of an entry table
HEAPENTRY_INVALID == -1

\* an empty slot.  A segment carries its kind, the fields of a Script, the
\* number of addressable units it holds and its storage buf: bytes for the
\* byte-addressable kinds, cells (reg_t) for locals, and for a table the
\* next_free of each entry, with the head of its free list in first_free
NULL ==
    [type |-> "NULL", nr |-> 0, lockers |-> 0, deleted |-> FALSE, localsSeg |-> 0, size |-> 0,
     buf |-> <<>>, first_free |-> HEAPENTRY_INVALID]

NULL_REG == [segment |-> 0, offset |-> 0]

\* n zero bytes: calloc(n, 1)
Zeros(n) == [i \in 1 .. n |-> 0]

\* the segment-id mask of getActualSegment, 0x3FFF
SegMask == 16383

\* identifiers a caller passes: 0, the slots, one past the bound, and an
\* identifier that carries a bit above the low 14
SegIds == (0 .. MaxHeap + 1) \cup {SegMask + 2}

\* the number of cells in the locals block of the game with locals
LocalsCells == 3



\* the segments a caller of getClassAddress says it runs in
CallerSegments == {0, 1}

\* the class numbers a caller asks for: the classes of vocab 996, one past
\* them, and the 0xffff that stands for no class
ClassNumbers(w) == (0 .. Len(w.classScript)) \cup {65535}

\* the size of the buffers allocDynmem is asked for
DynSize == 3

Offsets == {0}

\* the offsets of pointers into a segment: every byte of a dynamic buffer
\* and one past
ViewOffsets == 0 .. DynSize

\* a size_t is kept as the 32-bit two's complement number with the same low
\* 32 bits, so that (int)n is n itself; 0xFFFFFFFFU is then
UNBOUNDED == -1

\* the pointers a caller of the copies passes: the null pointer, and the
\* first two bytes of every slot
Pointers ==
    {NULL_REG} \cup {[segment |-> s, offset |-> o] : s \in 1 .. MaxHeap, o \in {0, 1}}

\* the host strings a caller passes: "", "A", "AB", "ABC", ...
Strings == {[i \in 1 .. n |-> 64 + i] : n \in 0 .. DynSize + 1}

\* the entry counts a caller of the typed accessors asks for
Counts == 0 .. DynSize + 1

\* the lengths a caller of the copies passes
Lengths == (0 .. DynSize + 1) \cup {UNBOUNDED}

Versions == {"SCI_VERSION_0_LATE", "SCI_VERSION_1_1", "SCI_VERSION_3"}

\* getSciVersion() <= SCI_VERSION_2_1_LATE
UpTo21Late(v) == v \in {"SCI_VERSION_0_LATE", "SCI_VERSION_1_1"}

\* getSciVersion() < SCI_VERSION_1_1
Before11(v) == v = "SCI_VERSION_0_LATE"

SCRIPT_GET_DONT_LOAD == 0
SCRIPT_GET_LOAD == 1
SCRIPT_GET_LOCK == 3

LoadTypes == {SCRIPT_GET_DONT_LOAD, SCRIPT_GET_LOAD, SCRIPT_GET_LOCK}

SegTypes == {"SEG_TYPE_SCRIPT", "SEG_TYPE_LOCALS", "SEG_TYPE_DYNMEM"}

\* the type tags a caller searches for: those, the tags of two table kinds
\* and the tag of no segment
SearchTypes == SegTypes \cup {"SEG_TYPE_CLONES", "SEG_TYPE_ARRAY", "SEG_TYPE_INVALID"}

----------------------------------------------------------------------------
(* The resources: vocab 996 and the script files *)

Cls(species, super) == [type |-> "SCI_OBJ_CLASS", species |-> species, super |-> super]
Obj(super) == [type |-> "SCI_OBJ_OBJECT", species |-> -1, super |-> super]
Code == [type |-> "SCI_OBJ_CODE", species |-> -1, super |-> -1]

\* script 1 defines class 0 and has locals; script 2 defines class 1, whose
\* superclass is class 0
WorldSingle ==
    [classScript |-> <<1, 2>>,
     objs |-> (1 :> <<Cls(0, -1)>>) @@ (2 :> <<Code, Cls(1, 0)>>),
     localsCount |-> (1 :> 1) @@ (2 :> 0)]

\* script 2 also holds an object of class 0: two records whose superclass
\* script 1 owns; script 3 holds an object of class 1
WorldChain ==
    [classScript |-> <<1, 2>>,
     objs |-> (1 :> <<Cls(0, -1)>>) @@ (2 :> <<Cls(1, 0), Obj(0)>>) @@ (3 :> <<Obj(1)>>),
     localsCount |-> (1 :> 0) @@ (2 :> 0) @@ (3 :> 0)]

\* superclass ownership crosses both ways: class 0 (script 1) has superclass 1
\* (script 2), class 1 has superclass 2 (script 1), and script 1 holds an
\* object of its own class 2
WorldCycle ==
    [classScript |-> <<1, 2, 1>>,
     objs |-> (1 :> <<Cls(2, -1), Cls(0, 1), Obj(2)>>) @@ (2 :> <<Cls(1, 2)>>),
     localsCount |-> (1 :> 0) @@ (2 :> 1)]

Worlds == {WorldSingle, WorldChain, WorldCycle}

\* script 1 defines classes 0 and 1 and holds an object of class 1: every
\* superclass in it is its own; vocab 996 gives class 2 to script 2, which
\* defines no class
WorldSelf ==
    [classScript |-> <<1, 1, 2>>,
     objs |-> (1 :> <<Cls(0, -1), Cls(1, 0), Obj(1)>>) @@ (2 :> <<Code>>),
     localsCount |-> (1 :> 0) @@ (2 :> 0)]

\* one script of two records with a block of locals and no class
WorldLocals ==
    [classScript |-> <<>>,
     objs |-> (1 :> <<Code, Obj(-1)>>),
     localsCount |-> (1 :> LocalsCells),
     isBE |-> FALSE]

\* the same game on a big-endian platform
WorldLocalsBE == [WorldLocals EXCEPT !.isBE = TRUE]

\* the value 0x4141 ("AA"): both bytes of the cell are characters
FilledCell == 16705

\* a game whose script resource gives every local the initial value 0x4141
WorldLocalsSet ==
    [classScript |-> <<>>,
     objs |-> (1 :> <<Code, Obj(-1)>>),
     localsCount |-> (1 :> LocalsCells),
     isBE |-> FALSE,
     localsInit |-> FilledCell]

\* the initial value the script resource gives the locals, 0 where the game
\* names none
LocalsValue(w) == IF "localsInit" \in DOMAIN w THEN w.localsInit ELSE 0

\* the script numbers the game has a script resource for
Scripts(w) == DOMAIN w.objs

\* vocab996->size() >> 2
TotalClasses(w) == Len(w.classScript)

\* vocab996->getUint16SEAt(classNr * 4 + 2)
ClassScriptOf(w, classNr) == w.classScript[classNr + 1]

----------------------------------------------------------------------------
(* The directory *)

At(h, id) == h[id + 1]

Put(h, id, mobj) == [h EXCEPT ![id + 1] = mobj]

InRange(h, id) == id >= 0 /\ id < Len(h)

Occupied(h, id) == InRange(h, id) /\ At(h, id) # NULL

RECURSIVE ScanFree(_, _)
ScanFree(h, seg) ==
    IF seg < Len(h) /\ At(h, seg) # NULL THEN ScanFree(h, seg + 1) ELSE seg

\* a scan that starts at the sentinel
FindFreeSegmentFrom0(h) == ScanFree(h, 0)

\* no reuse of freed slots: always a new identifier at the end
FindFreeSegmentAtEnd(h) == Len(h)

FindFreeSegment(h) == ScanFree(h, 1)

\* The machine a handler works on: the fields of SegManager, the error that
\* ended the call if any, and what the call did: the identifiers allocSegment
\* returned and the slots deallocate cleared, in order, and the deepest
\* nesting of uninstantiateScript.
\* the element of a set of one
Only(S) == CHOOSE x \in S : TRUE

\* the table kinds, by the member that caches the segment of the kind
TableKinds == {"clones", "lists", "nodes", "hunks", "arrays", "bitmap"}

\* no table segment yet: every cached id is 0
NoTables == [k \in TableKinds |-> 0]

Machine(h, m, ct) ==
    [heap |-> h, segMap |-> m, classTable |-> ct, err |-> "none",
     allocs |-> <<>>, freed |-> <<>>, id |-> 0, maxDepth |-> 0, reg |-> NULL_REG,
     segIds |-> NoTables]

Fail(s, msg) == IF s.err = "none" THEN [s EXCEPT !.err = msg] ELSE s

AllocSegment(s, mem) ==
    LET id == FindFreeSegment(s.heap)
        h1 == IF id >= Len(s.heap) THEN Append(s.heap, NULL) ELSE s.heap
    IN [s EXCEPT !.heap = Put(h1, id, mem), !.id = id, !.allocs = Append(@, id)]

\* the identifier is used as it came in either generation
GetActualSegmentUnmasked(v, seg) == seg

GetActualSegment(v, seg) == IF UpTo21Late(v) THEN seg ELSE seg % (SegMask + 1)

IsScript(mobj) == mobj.type = "SEG_TYPE_SCRIPT"

\* the range check alone: an empty slot passes
DeallocateCheckRangeOnly(s, actualSegment) ==
    IF actualSegment < 1 \/ actualSegment >= Len(s.heap)
    THEN "Attempt to deallocate an invalid segment ID"
    ELSE "none"

\* the two checks deallocate makes before it touches anything
DeallocateCheck(s, actualSegment) ==
    IF actualSegment < 1 \/ actualSegment >= Len(s.heap)
    THEN "Attempt to deallocate an invalid segment ID"
    ELSE IF At(s.heap, actualSegment) = NULL
    THEN "Attempt to deallocate an already freed segment"
    ELSE "none"

\* no look at the locals slot before the recursive call
LocalsToFreeUnguarded(s, mobj) == IsScript(mobj) /\ mobj.localsSeg # 0

\* whether deallocate goes on to deallocate the script's locals segment
LocalsToFree(s, mobj) ==
    IsScript(mobj) /\ mobj.localsSeg # 0 /\ At(s.heap, mobj.localsSeg) # NULL

\* the object is deleted and the slot keeps the dangling pointer
ClearSlotForgotten(s, actualSegment) ==
    [s EXCEPT !.freed = Append(@, actualSegment)]

\* delete mobj; _heap[actualSegment] = NULL
ClearSlot(s, actualSegment) ==
    [s EXCEPT !.heap = Put(@, actualSegment, NULL), !.freed = Append(@, actualSegment)]

\* the script keeps its entry in the map
ScriptSegMapEraseForgotten(s, script_nr) == s

\* _scriptSegMap.erase(scr->getScriptNumber())
ScriptSegMapErase(s, script_nr) == [s EXCEPT !.segMap[script_nr] = 0]

RECURSIVE Deallocate(_, _, _)
Deallocate(s, v, seg) ==
    LET actualSegment == GetActualSegment(v, seg)
        check == DeallocateCheck(s, actualSegment)
    IN
    IF s.err # "none" THEN s
    ELSE IF check # "none" THEN Fail(s, check)
    ELSE
        LET mobj == At(s.heap, actualSegment)
            s1 == IF IsScript(mobj) THEN ScriptSegMapErase(s, mobj.nr) ELSE s
            s2 == IF LocalsToFree(s1, mobj) THEN Deallocate(s1, v, mobj.localsSeg) ELSE s1
        IN IF s2.err # "none" THEN s2 ELSE ClearSlot(s2, actualSegment)

\* getScriptSegment(int script_id) const
GetScriptSegment(s, script_id) ==
    IF script_id \in DOMAIN s.segMap THEN s.segMap[script_id] ELSE 0

DeallocateScript(s, v, script_nr) == Deallocate(s, v, GetScriptSegment(s, script_nr))

\* the slot of the Script that getScriptIfLoaded returns, 0 for nullptr
GetScriptIfLoaded(s, v, seg) ==
    LET actualSegment == GetActualSegment(v, seg) IN
    IF actualSegment < 1 \/ actualSegment >= Len(s.heap)
       \/ At(s.heap, actualSegment) = NULL
       \/ ~IsScript(At(s.heap, actualSegment))
    THEN 0
    ELSE actualSegment

\* the error getScript ends with, "none" when it returns the Script
GetScriptError(s, v, seg) ==
    LET actualSegment == GetActualSegment(v, seg) IN
    IF actualSegment < 1 \/ actualSegment >= Len(s.heap)
    THEN "SegManager::getScript(): seg id out of bounds"
    ELSE IF At(s.heap, actualSegment) = NULL
    THEN "SegManager::getScript(): seg id is not in memory"
    ELSE IF ~IsScript(At(s.heap, actualSegment))
    THEN "SegManager::getScript(): seg id refers to type != SEG_TYPE_SCRIPT"
    ELSE "none"

----------------------------------------------------------------------------
(* Script, LocalVariables and DynMem objects *)

\* Script::Script(), which ends in freeScript(): one locker, not marked deleted
NewScript ==
    [type |-> "SEG_TYPE_SCRIPT", nr |-> 0, lockers |-> 1, deleted |-> FALSE,
     localsSeg |-> 0, size |-> 0, buf |-> <<>>, first_free |-> HEAPENTRY_INVALID]

\* Script::freeScript(keepLocalsSegment)
FreeScript(scr, keepLocalsSegment) ==
    [scr EXCEPT !.nr = 0, !.lockers = 1, !.deleted = FALSE, !.size = 0, !.buf = <<>>,
                !.localsSeg = IF keepLocalsSegment THEN @ ELSE 0]

IncrementLockers(scr) == [scr EXCEPT !.lockers = @ + 1]

\* the count is taken down whatever it is
DecrementLockersUnchecked(scr) == [scr EXCEPT !.lockers = @ - 1]

DecrementLockers(scr) == [scr EXCEPT !.lockers = IF @ > 0 THEN @ - 1 ELSE @]

MarkDeleted(scr) == [scr EXCEPT !.deleted = TRUE]

NewLocals(script_id, count) ==
    [type |-> "SEG_TYPE_LOCALS", nr |-> script_id, lockers |-> 0, deleted |-> FALSE,
     localsSeg |-> 0, size |-> count, buf |-> [i \in 1 .. count |-> NULL_REG],
     first_free |-> HEAPENTRY_INVALID]

NewDynMem(size) ==
    [type |-> "SEG_TYPE_DYNMEM", nr |-> 0, lockers |-> 0, deleted |-> FALSE,
     localsSeg |-> 0, size |-> size, buf |-> Zeros(size), first_free |-> HEAPENTRY_INVALID]

\* Script::load: the script takes its number and its buffer
\* the byte a record of a script file starts with: its block type
BlockType(rec) ==
    IF rec.type = "SCI_OBJ_OBJECT" THEN 1 ELSE IF rec.type = "SCI_OBJ_CODE" THEN 2 ELSE 6

ScriptLoad(scr, w, script_nr) ==
    [scr EXCEPT !.nr = script_nr, !.size = Len(w.objs[script_nr]),
                !.buf = [i \in 1 .. Len(w.objs[script_nr]) |-> BlockType(w.objs[script_nr][i])]]

\* the locals block after the load: every cell holds the initial value of the
\* script resource
LoadedLocals(locals, w) ==
    [locals EXCEPT !.buf = [i \in 1 .. locals.size |-> [segment |-> 0, offset |-> LocalsValue(w)]]]

\* Script::initializeLocals: a script with locals takes the locals segment it
\* kept, or a new one, and the locals take their initial values
InitializeLocals(s, w, segmentId) ==
    LET scr == At(s.heap, segmentId)
        count == w.localsCount[scr.nr]
    IN
    IF count = 0 THEN s
    ELSE IF scr.localsSeg # 0
    THEN IF Occupied(s.heap, scr.localsSeg)
            /\ At(s.heap, scr.localsSeg).type = "SEG_TYPE_LOCALS"
            /\ At(s.heap, scr.localsSeg).nr = scr.nr
         THEN [s EXCEPT !.heap = Put(@, scr.localsSeg, LoadedLocals(At(s.heap, scr.localsSeg), w))]
         ELSE Fail(s, "Invalid script locals segment while allocating locals")
    ELSE LET s1 == AllocSegment(s, LoadedLocals(NewLocals(scr.nr, count), w))
         IN [s1 EXCEPT !.heap = Put(@, segmentId, [scr EXCEPT !.localsSeg = s1.id])]

\* setClassOffset(species, make_reg(segment, position)) for the class records
\* of the script from position i on
RECURSIVE InitializeClassesFrom(_, _, _, _)
InitializeClassesFrom(s, recs, segmentId, i) ==
    IF i > Len(recs) THEN s
    ELSE LET rec == recs[i]
             s1 == IF rec.type = "SCI_OBJ_CLASS" /\ rec.species \in DOMAIN s.classTable
                   THEN [s EXCEPT !.classTable[rec.species].reg =
                                      [segment |-> segmentId, offset |-> i]]
                   ELSE s
         IN InitializeClassesFrom(s1, recs, segmentId, i + 1)

\* Script::initializeClasses
InitializeClasses(s, w, segmentId) ==
    InitializeClassesFrom(s, w.objs[At(s.heap, segmentId).nr], segmentId, 1)

----------------------------------------------------------------------------
(* Script lifecycle *)

\* allocateScript: the segment the script already has, or a new Script
AllocateScript(s, script_nr) ==
    LET segid == GetScriptSegment(s, script_nr) IN
    IF segid > 0 THEN [s EXCEPT !.id = segid]
    ELSE LET s1 == AllocSegment(s, NewScript)
         IN [s1 EXCEPT !.segMap[script_nr] = s1.id]

\* the script is handed back without a new lock
RelockForgotten(s, scr, segmentId) == [s EXCEPT !.id = segmentId]

\* scr->incrementLockers(); return segmentId
Relock(s, scr, segmentId) ==
    [s EXCEPT !.heap = Put(@, scr, IncrementLockers(At(s.heap, scr))), !.id = segmentId]

\* a script marked deleted is reset from scratch in a new segment
ResetInPlaceElsewhere(s, scr, segmentId, scriptNum) ==
    LET s1 == AllocSegment(s, NewScript) IN [s1 EXCEPT !.segMap[scriptNum] = s1.id]

\* scr->freeScript(true): the script keeps its segment
ResetInPlace(s, scr, segmentId, scriptNum) ==
    [s EXCEPT !.heap = Put(@, scr, FreeScript(At(s.heap, scr), TRUE)), !.id = segmentId]

\* instantiateScript; the segment id it returns is the field id
InstantiateScript(s, v, w, scriptNum) ==
    LET segmentId == GetScriptSegment(s, scriptNum)
        scr == GetScriptIfLoaded(s, v, segmentId)
    IN
    IF scr # 0 /\ ~At(s.heap, scr).deleted
    THEN Relock(s, scr, segmentId)
    ELSE
        LET s1 == IF scr # 0
                  THEN ResetInPlace(s, scr, segmentId, scriptNum)
                  ELSE AllocateScript(s, scriptNum)
            slot == IF scr # 0 THEN scr ELSE s1.id
        IN
        IF ~(Occupied(s1.heap, slot) /\ IsScript(At(s1.heap, slot)))
        THEN Fail(s1, "undefined: allocateScript returned no Script")
        ELSE
            LET s2 == [s1 EXCEPT !.heap = Put(@, slot, ScriptLoad(At(s1.heap, slot), w, scriptNum))]
                s3 == InitializeLocals(s2, w, slot)
            IN IF s3.err # "none" THEN s3
               ELSE [InitializeClasses(s3, w, slot) EXCEPT !.id = s1.id]

Max(a, b) == IF a >= b THEN a ELSE b

\* every resolved class is forgotten
ClearClassReferencesAll(ct, segmentId) ==
    [i \in DOMAIN ct |-> [ct[i] EXCEPT !.reg = NULL_REG]]

\* the class-table loop of uninstantiateScript
ClearClassReferences(ct, segmentId) ==
    [i \in DOMAIN ct |->
        IF ct[i].reg.segment = segmentId THEN [ct[i] EXCEPT !.reg = NULL_REG] ELSE ct[i]]

\* objects are passed over: only class records count
IsObjectOrClassOnlyClass(rec) == rec.type = "SCI_OBJ_CLASS"

\* (objType == SCI_OBJ_OBJECT) || (objType == SCI_OBJ_CLASS)
IsObjectOrClass(rec) == rec.type \in {"SCI_OBJ_OBJECT", "SCI_OBJ_CLASS"}

\* the script is never marked
MarkIfUnlockedNever(s, scr) == s

\* the script is freed as soon as it is unlocked
MarkIfUnlockedFrees(s, scr) ==
    IF At(s.heap, scr).lockers = 0 THEN ClearSlot(s, scr) ELSE s

\* a script marked deleted is unlocked once more
AlreadyUnloadedOnlyMissing(s, scr) == scr = 0

\* !scr || scr->isMarkedAsDeleted()
AlreadyUnloaded(s, scr) == scr = 0 \/ At(s.heap, scr).deleted

\* if (!scr->getLockers()) scr->markDeleted()
MarkIfUnlocked(s, scr) ==
    IF At(s.heap, scr).lockers = 0
    THEN [s EXCEPT !.heap = Put(@, scr, MarkDeleted(At(s.heap, scr)))]
    ELSE s

\* a script's own superclass is treated like any other script's
IsOurselvesNever(superclass_script, script_nr) == FALSE

\* superclass_script == script_nr
IsOurselves(superclass_script, script_nr) == superclass_script = script_nr

RECURSIVE UninstantiateScript(_, _, _, _, _)
RECURSIVE Sci0Walk(_, _, _, _, _, _, _)

\* the while loop of uninstantiateScriptSci0 over the records of the script's
\* buffer, from record i on
Sci0Walk(s, v, w, script_nr, segmentId, i, depth) ==
    LET recs == w.objs[At(s.heap, segmentId).nr] IN
    IF s.err # "none" \/ i > Len(recs) THEN s
    ELSE
        LET rec == recs[i]
            scr == At(s.heap, segmentId)
            s1 == IF IsObjectOrClass(rec) /\ rec.super >= 0
                  THEN LET superclass_script == s.classTable[rec.super].script IN
                       IF IsOurselves(superclass_script, script_nr)
                       THEN IF scr.lockers # 0
                            THEN [s EXCEPT !.heap = Put(@, segmentId, DecrementLockers(scr))]
                            ELSE s
                       ELSE UninstantiateScript(s, v, w, superclass_script, depth + 1)
                  ELSE s
        IN Sci0Walk(s1, v, w, script_nr, segmentId, i + 1, depth)

UninstantiateScriptSci0(s, v, w, script_nr, depth) ==
    LET segmentId == GetScriptSegment(s, script_nr)
        e == GetScriptError(s, v, segmentId)
    IN IF e # "none" THEN Fail(s, e)
       ELSE Sci0Walk(s, v, w, script_nr, GetActualSegment(v, segmentId), 1, depth)

\* uninstantiateScript, entered at nesting depth `depth` (1 for the caller's
\* call).  A nesting deeper than StackLimit exhausts the host stack.
UninstantiateScript(s, v, w, script_nr, depth) ==
    IF s.err # "none" THEN s
    ELSE IF depth > StackLimit THEN Fail(s, "stack overflow")
    ELSE
        LET s0 == [s EXCEPT !.maxDepth = Max(@, depth)]
            segmentId == GetScriptSegment(s0, script_nr)
            scr == GetScriptIfLoaded(s0, v, segmentId)
        IN
        IF AlreadyUnloaded(s0, scr) THEN s0
        ELSE
            LET s1 == [s0 EXCEPT !.heap = Put(@, scr, DecrementLockers(At(s0.heap, scr)))] IN
            IF At(s1.heap, scr).lockers > 0 THEN s1
            ELSE
                LET s2 == [s1 EXCEPT !.classTable = ClearClassReferences(@, segmentId)]
                    s3 == IF Before11(v)
                          THEN UninstantiateScriptSci0(s2, v, w, script_nr, depth)
                          ELSE s2
                IN IF s3.err # "none" THEN s3 ELSE MarkIfUnlocked(s3, scr)

----------------------------------------------------------------------------
(* Class resolution *)

\* createClassTable: one entry per class of vocab 996, unresolved
CreateClassTable(w) ==
    [classNr \in 0 .. TotalClasses(w) - 1 |->
        [script |-> ClassScriptOf(w, classNr), reg |-> NULL_REG]]

\* nothing is ever loaded on the way
WantsLoadNever(load) == FALSE

\* (load & SCRIPT_GET_LOAD) == SCRIPT_GET_LOAD
WantsLoad(load) == load % 2 = SCRIPT_GET_LOAD

\* (load & SCRIPT_GET_LOCK) == SCRIPT_GET_LOCK
WantsLock(load) == load % 4 = SCRIPT_GET_LOCK

\* getScriptSegment(script_nr, load, applyScriptPatches); the segment it
\* returns is the field id
GetScriptSegmentLoad(s, v, w, script_nr, load) ==
    LET Locked(s1) ==
            LET segment == GetScriptSegment(s1, script_nr) IN
            IF s1.err # "none" THEN s1
            ELSE IF segment > 0 /\ WantsLock(load)
            THEN LET e == GetScriptError(s1, v, segment)
                     a == GetActualSegment(v, segment)
                 IN IF e # "none" THEN Fail(s1, e)
                    ELSE [s1 EXCEPT !.heap = Put(@, a, IncrementLockers(At(s1.heap, a))),
                                    !.id = segment]
            ELSE [s1 EXCEPT !.id = segment]
    IN Only({Locked(s1) :
                s1 \in {IF WantsLoad(load) THEN InstantiateScript(s, v, w, script_nr) ELSE s}})

\* a caller that opted out is treated like any other
OptedOutNever(lock) == FALSE

\* lock == SCRIPT_GET_DONT_LOAD
OptedOut(lock) == lock = SCRIPT_GET_DONT_LOAD

\* every reference counts as one from another segment
CrossesSegmentsAlways(callerSegment, segment) == TRUE

\* callerSegment != the_class->reg.getSegment()
CrossesSegments(callerSegment, segment) == callerSegment # segment

\* getClassAddress; the address it returns is the field reg
GetClassAddress(s, v, w, classnr, lock, callerSegment) ==
    IF classnr = 65535 THEN [s EXCEPT !.reg = NULL_REG]
    ELSE IF classnr < 0 \/ Cardinality(DOMAIN s.classTable) <= classnr
               \/ s.classTable[classnr].script < 0
    THEN Fail(s, "[VM] Attempt to dereference class which doesn't exist")
    ELSE
        LET the_class == s.classTable[classnr] IN
        IF the_class.reg.segment = 0
        THEN LET Resolved(s1) ==
                    IF s1.err # "none" THEN s1
                    ELSE IF s1.classTable[classnr].reg.segment = 0
                    THEN IF OptedOut(lock)
                         THEN [s1 EXCEPT !.reg = NULL_REG]
                         ELSE Fail(s1, "[VM] Trying to instantiate class by instantiating script failed")
                    ELSE [s1 EXCEPT !.reg = s1.classTable[classnr].reg]
             IN Only({Resolved(s1) :
                        s1 \in {GetScriptSegmentLoad(s, v, w, the_class.script, lock)}})
        ELSE IF CrossesSegments(callerSegment, the_class.reg.segment)
        THEN LET e == GetScriptError(s, v, the_class.reg.segment)
                 a == GetActualSegment(v, the_class.reg.segment)
             IN IF e # "none" THEN Fail(s, e)
                ELSE [s EXCEPT !.heap = Put(@, a, IncrementLockers(At(s.heap, a))),
                               !.reg = the_class.reg]
        ELSE [s EXCEPT !.reg = the_class.reg]

----------------------------------------------------------------------------
(* Dereference *)

\* SegmentRef(): the invalid view
InvalidView == [valid |-> FALSE, isRaw |-> TRUE, maxSize |-> 0, skipByte |-> FALSE]

\* the view of the whole segment wherever the pointer points into it
SegDereferenceWhole(mobj, offset) ==
    IF offset >= mobj.size THEN InvalidView
    ELSE [valid |-> TRUE, isRaw |-> mobj.type # "SEG_TYPE_LOCALS", maxSize |-> mobj.size,
          skipByte |-> FALSE]

\* SegmentObj::dereference of the segment kinds: byte-addressable kinds give
\* the bytes that remain from the offset; locals give the cells that remain
\* from the cell the offset falls in, and skipByte when the offset is odd
SegDereference(mobj, offset) ==
    IF mobj.type = "SEG_TYPE_LOCALS"
    THEN IF offset \div 2 >= mobj.size THEN InvalidView
         ELSE [valid |-> TRUE, isRaw |-> FALSE, maxSize |-> mobj.size - (offset \div 2),
               skipByte |-> offset % 2 = 1]
    ELSE IF offset >= mobj.size THEN InvalidView
         ELSE [valid |-> TRUE, isRaw |-> TRUE, maxSize |-> mobj.size - offset,
               skipByte |-> FALSE]

\* the slot is read without the range check: past the end of the array any
\* object may be found there
DereferenceNoRange(h, segment, offset) ==
    IF segment = 0 \/ (segment < Len(h) /\ At(h, segment) = NULL) THEN InvalidView
    ELSE IF segment >= Len(h)
    THEN [valid |-> TRUE, isRaw |-> TRUE, maxSize |-> 1, skipByte |-> FALSE]
    ELSE SegDereference(At(h, segment), offset)

\* SegManager::dereference
Dereference(h, segment, offset) ==
    IF segment = 0 \/ segment >= Len(h) \/ At(h, segment) = NULL THEN InvalidView
    ELSE SegDereference(At(h, segment), offset)

\* reg_t::getSegment: the segment a pointer designates, the low 14 bits of
\* the stored identifier in the generation that masks
RegGetSegment(v, segment) == IF UpTo21Late(v) THEN segment ELSE segment % (SegMask + 1)

----------------------------------------------------------------------------
(* Lookups *)

\* the slot of the object getSegmentObj returns, 0 for nullptr
GetSegmentObj(h, v, seg) ==
    LET actualSegment == GetActualSegment(v, seg) IN
    IF actualSegment < 1 \/ actualSegment >= Len(h) \/ At(h, actualSegment) = NULL
    THEN 0
    ELSE actualSegment

GetSegmentType(h, v, seg) ==
    LET actualSegment == GetActualSegment(v, seg) IN
    IF actualSegment < 1 \/ actualSegment >= Len(h) \/ At(h, actualSegment) = NULL
    THEN "SEG_TYPE_INVALID"
    ELSE At(h, actualSegment).type

\* _heap[actualSegment] as getSegment reads it once the types agree: the
\* slot of the object, 0 for the null of an empty slot, and -1 for what a
\* read past the end of the array finds
HeapElement(h, actualSegment) ==
    IF actualSegment >= Len(h) THEN -1
    ELSE IF At(h, actualSegment) = NULL THEN 0
    ELSE actualSegment

\* the slot of the object getSegment returns, 0 for NULL
GetSegment(h, v, seg, type) ==
    LET actualSegment == GetActualSegment(v, seg) IN
    IF GetSegmentType(h, v, actualSegment) = type THEN HeapElement(h, actualSegment) ELSE 0

\* any live segment is freed, whatever its kind
FreeDynmemAnyKind(s, v, segment) ==
    LET seg == RegGetSegment(v, segment) IN
    IF seg < 1 \/ seg >= Len(s.heap) \/ At(s.heap, seg) = NULL
    THEN [s EXCEPT !.id = 0]
    ELSE [Deallocate(s, v, seg) EXCEPT !.id = 1]

\* freeDynmem: id is 1 for true, 0 for false
FreeDynmem(s, v, segment) ==
    LET seg == RegGetSegment(v, segment) IN
    IF seg < 1 \/ seg >= Len(s.heap) \/ At(s.heap, seg) = NULL
       \/ At(s.heap, seg).type # "SEG_TYPE_DYNMEM"
    THEN [s EXCEPT !.id = 0]
    ELSE [Deallocate(s, v, seg) EXCEPT !.id = 1]

----------------------------------------------------------------------------
(* Typed accessors *)

\* nullptr, and the storage of a view: the place it starts at and its kind
NullPtr == [null |-> TRUE, isRaw |-> TRUE, segment |-> 0, offset |-> 0]

Storage(view, segment, offset) ==
    [null |-> FALSE, isRaw |-> view.isRaw, segment |-> segment, offset |-> offset]

\* the bound check that also refuses a request for all that remains
BeyondEndInclusive(entries, ret) == entries >= ret.maxSize

\* entries > ret.maxSize
BeyondEnd(entries, ret) == entries > ret.maxSize

\* derefPtr: a kind other than the wanted one is warned about and goes on
DerefPtr(h, v, segment, offset, entries, wantRaw) ==
    LET seg == RegGetSegment(v, segment)
        ret == Dereference(h, seg, offset)
    IN
    IF ~ret.valid THEN NullPtr
    ELSE IF ~wantRaw /\ ret.skipByte THEN NullPtr
    ELSE IF BeyondEnd(entries, ret) THEN NullPtr
    ELSE Storage(ret, seg, offset)

DerefBulkPtr(h, v, segment, offset, entries) == DerefPtr(h, v, segment, offset, entries, TRUE)

\* the cells are asked for as that many entries
DerefRegPtrSingle(h, v, segment, offset, entries) ==
    DerefPtr(h, v, segment, offset, entries, FALSE)

\* every cell is asked for as two entries
DerefRegPtr(h, v, segment, offset, entries) ==
    DerefPtr(h, v, segment, offset, 2 * entries, FALSE)

DerefString(h, v, segment, offset, entries) == DerefPtr(h, v, segment, offset, entries, TRUE)

----------------------------------------------------------------------------
(* Characters in cells *)

\* a < b between two size_t
UnsignedLess(a, b) == IF (a < 0) = (b < 0) THEN a < b ELSE b < 0

\* g_sci->isBE()
IsBE(w) == w.isBE

\* the memory a copy works on: the heap, and oob once an access has gone
\* outside the storage it was aimed at, after which nothing more is known
Mem(h) == [heap |-> h, oob |-> FALSE]

OutOfBounds(m) == [m EXCEPT !.oob = TRUE]

\* the view of a pointer together with the place its storage starts at
Ref(h, v, p) ==
    LET seg == RegGetSegment(v, p.segment)
        ret == Dereference(h, seg, p.offset)
    IN [valid |-> ret.valid, isRaw |-> ret.isRaw, maxSize |-> ret.maxSize,
        skipByte |-> ret.skipByte, seg |-> seg, off |-> p.offset]

BufOf(m, seg) == At(m.heap, seg).buf

PutBuf(m, seg, i, x) ==
    [m EXCEPT !.heap = Put(m.heap, seg, [At(m.heap, seg) EXCEPT !.buf[i] = x])]

\* raw[pos], -1 for a read outside the buffer
RawByte(m, seg, pos) ==
    IF pos < Len(BufOf(m, seg)) THEN BufOf(m, seg)[pos + 1] ELSE -1

\* raw[pos] = b
PutByte(m, seg, pos, b) ==
    IF pos < Len(BufOf(m, seg)) THEN PutBuf(m, seg, pos + 1, b) ELSE OutOfBounds(m)

\* the cell a character of a non-raw view lives in, counted from the start of
\* the storage, and whether it is the high half of the cell's offset
CharCell(ref, offset) ==
    (ref.off \div 2) + ((offset + (IF ref.skipByte THEN 1 ELSE 0)) \div 2)

CharOdd(be, ref, offset) ==
    LET oddOffset == (offset + (IF ref.skipByte THEN 1 ELSE 0)) % 2 = 1
    IN IF be THEN ~oddOffset ELSE oddOffset

\* getChar, -1 for a read outside the cells
GetChar(m, be, ref, offset) ==
    LET i == CharCell(ref, offset) IN
    IF i >= Len(BufOf(m, ref.seg)) THEN -1
    ELSE LET val == BufOf(m, ref.seg)[i + 1] IN
         IF CharOdd(be, ref, offset) THEN val.offset \div 256 ELSE val.offset % 256

\* the character goes to the low half of its cell whatever its place
SetCharLowHalf(m, be, ref, offset, value) ==
    LET i == CharCell(ref, offset) IN
    IF i >= Len(BufOf(m, ref.seg)) THEN OutOfBounds(m)
    ELSE LET val == BufOf(m, ref.seg)[i + 1] IN
         PutBuf(m, ref.seg, i + 1,
                [segment |-> 0, offset |-> ((val.offset \div 256) * 256) + value])

\* setChar
SetChar(m, be, ref, offset, value) ==
    LET i == CharCell(ref, offset) IN
    IF i >= Len(BufOf(m, ref.seg)) THEN OutOfBounds(m)
    ELSE LET val == BufOf(m, ref.seg)[i + 1] IN
         PutBuf(m, ref.seg, i + 1,
                [segment |-> 0,
                 offset |-> IF CharOdd(be, ref, offset)
                            THEN (val.offset % 256) + (value * 256)
                            ELSE ((val.offset \div 256) * 256) + value])

----------------------------------------------------------------------------
(* Copies *)

\* a source of bytes: the characters of a host string, which a zero byte
\* follows, or the bytes of a raw view
HostString(bytes) == [host |-> TRUE, bytes |-> bytes, seg |-> 0, off |-> 0]

RawSource(ref) == [host |-> FALSE, bytes |-> <<>>, seg |-> ref.seg, off |-> ref.off]

\* src[i], -1 for a read outside the source
SrcByte(m, src, i) ==
    IF src.host
    THEN IF i < Len(src.bytes) THEN src.bytes[i + 1] ELSE IF i = Len(src.bytes) THEN 0 ELSE -1
    ELSE RawByte(m, src.seg, src.off + i)

\* the first loop of forwardCopy, i bytes done and n to go
RECURSIVE ForwardLoop(_, _, _, _, _, _)
ForwardLoop(isString, m, dest, src, i, n) ==
    IF n = 0 \/ m.oob THEN [m |-> m, i |-> i, n |-> n]
    ELSE LET b == SrcByte(m, src, i) IN
         IF b < 0 THEN [m |-> OutOfBounds(m), i |-> i, n |-> n - 1]
         ELSE LET m1 == PutByte(m, dest.seg, dest.off + i, b) IN
              IF isString /\ b = 0 THEN [m |-> m1, i |-> i + 1, n |-> n - 1]
              ELSE ForwardLoop(isString, m1, dest, src, i + 1, n - 1)

\* while (n--) *dest++ = 0
RECURSIVE ZeroPad(_, _, _, _)
ZeroPad(m, dest, i, n) ==
    IF n = 0 \/ m.oob THEN m
    ELSE ZeroPad(PutByte(m, dest.seg, dest.off + i, 0), dest, i + 1, n - 1)

\* forwardCopy<STRING>
ForwardCopy(isString, m, dest, src, n) ==
    LET r == Only({ForwardLoop(isString, m, dest, src, 0, n)}) IN
    IF isString /\ n # UNBOUNDED THEN ZeroPad(r.m, dest, r.i, r.n) ELSE r.m

\* for (i = 0; i < n; i++) { setChar(dest_r, i, src[i]); if (!src[i]) break; }
\* and the same loop without the break
RECURSIVE SetChars(_, _, _, _, _, _, _)
SetChars(isString, m, be, dest, src, i, n) ==
    IF ~UnsignedLess(i, n) \/ m.oob THEN m
    ELSE LET b == SrcByte(m, src, i) IN
         IF b < 0 THEN OutOfBounds(m)
         ELSE LET m1 == SetChar(m, be, dest, i, b) IN
              IF isString /\ b = 0 THEN m1 ELSE SetChars(isString, m1, be, dest, src, i + 1, n)

\* if ((size_t)dest_r.maxSize > n) setChar(dest_r, n, 0)
EndingNul(m, be, dest, n) ==
    IF UnsignedLess(n, dest.maxSize) THEN SetChar(m, be, dest, n, 0) ELSE m

\* strncpy(reg_t dest, const char *src, size_t n), src being any byte source
StrncpyFrom(m, v, be, destp, src, n) ==
    LET dest == Ref(m.heap, v, destp) IN
    IF ~dest.valid THEN m
    ELSE IF dest.isRaw THEN ForwardCopy(TRUE, m, dest, src, n)
    ELSE LET m1 == Only({SetChars(TRUE, m, be, dest, src, 0, n)}) IN
         IF m1.oob THEN m1 ELSE EndingNul(m1, be, dest, n)

\* strcpy_(reg_t dest, const char *src)
StrcpyFrom(m, v, be, destp, src) == StrncpyFrom(m, v, be, destp, src, UNBOUNDED)

\* the loops of strncpy that read a non-raw source with getChar
RECURSIVE GetChars(_, _, _, _, _, _, _)
GetChars(isString, m, be, dest, src, i, n) ==
    IF ~UnsignedLess(i, n) \/ m.oob THEN m
    ELSE LET c == GetChar(m, be, src, i) IN
         IF c < 0 THEN OutOfBounds(m)
         ELSE LET m1 == IF dest.isRaw THEN PutByte(m, dest.seg, dest.off + i, c)
                        ELSE SetChar(m, be, dest, i, c)
              IN IF isString /\ c = 0 THEN m1 ELSE GetChars(isString, m1, be, dest, src, i + 1, n)

\* reg_t::isNull
IsNull(p) == p.segment = 0 /\ p.offset = 0

\* strncpy(reg_t dest, reg_t src, size_t n)
Strncpy(m, v, be, destp, srcp, n) ==
    LET dest == Ref(m.heap, v, destp)
        src == Ref(m.heap, v, srcp)
    IN
    IF IsNull(srcp) \/ ~src.valid
    THEN IF n # 0 THEN StrcpyFrom(m, v, be, destp, HostString(<<>>)) ELSE m
    ELSE IF ~dest.valid THEN m
    ELSE IF src.isRaw THEN StrncpyFrom(m, v, be, destp, RawSource(src), n)
    ELSE GetChars(TRUE, m, be, dest, src, 0, n)

\* strcpy_(reg_t dest, reg_t src)
Strcpy(m, v, be, destp, srcp) == Strncpy(m, v, be, destp, srcp, UNBOUNDED)

\* (int)n > ref.maxSize
TooLong(n, ref) == n > ref.maxSize

\* memcpy(reg_t dest, const byte *src, size_t n)
MemcpyFrom(m, v, be, destp, src, n) ==
    LET dest == Ref(m.heap, v, destp) IN
    IF ~dest.valid THEN m
    ELSE IF TooLong(n, dest) THEN m
    ELSE IF dest.isRaw THEN ForwardCopy(FALSE, m, dest, src, n)
    ELSE SetChars(FALSE, m, be, dest, src, 0, n)

\* memcpy(reg_t dest, reg_t src, size_t n); its non-raw -> raw branch is
\* memcpy(byte *dest, reg_t src, size_t n), which checks the source again
Memcpy(m, v, be, destp, srcp, n) ==
    LET dest == Ref(m.heap, v, destp)
        src == Ref(m.heap, v, srcp)
    IN
    IF ~dest.valid THEN m
    ELSE IF TooLong(n, dest) THEN m
    ELSE IF ~src.valid THEN m
    ELSE IF TooLong(n, src) THEN m
    ELSE IF src.isRaw THEN MemcpyFrom(m, v, be, destp, RawSource(src), n)
    ELSE GetChars(FALSE, m, be, dest, src, 0, n)

\* the scan that gives up one byte before the bound
RECURSIVE StrnlenShort(_, _, _)
StrnlenShort(m, ref, i) ==
    IF i + 1 >= ref.maxSize \/ RawByte(m, ref.seg, ref.off + i) <= 0 THEN i
    ELSE StrnlenShort(m, ref, i + 1)

\* Common::strnlen(raw, maxSize) from byte i on
RECURSIVE Strnlen(_, _, _)
Strnlen(m, ref, i) ==
    IF i >= ref.maxSize \/ RawByte(m, ref.seg, ref.off + i) <= 0 THEN i
    ELSE Strnlen(m, ref, i + 1)

\* while (getChar(str_r, i)) i++, -1 once a read has left the cells
RECURSIVE ScanChars(_, _, _, _)
ScanChars(m, be, ref, i) ==
    LET c == GetChar(m, be, ref, i) IN
    IF c < 0 THEN -1 ELSE IF c = 0 THEN i ELSE ScanChars(m, be, ref, i + 1)

\* strlen, -1 when the scan left the storage
Strlen(m, v, be, p) ==
    LET str == Ref(m.heap, v, p) IN
    IF IsNull(p) THEN 0
    ELSE IF ~str.valid THEN 0
    ELSE IF str.isRaw THEN Strnlen(m, str, 0)
    ELSE ScanChars(m, be, str, 0)

\* the loop of getString over a non-raw view from character i on
RECURSIVE ReadChars(_, _, _, _)
ReadChars(m, be, ref, i) ==
    IF i >= ref.maxSize THEN <<>>
    ELSE LET c == GetChar(m, be, ref, i) IN
         IF c <= 0 THEN <<>> ELSE <<c>> \o ReadChars(m, be, ref, i + 1)

\* whether the loop of getString over a non-raw view reads outside the cells
\* from character i on
RECURSIVE ReadsOutside(_, _, _, _)
ReadsOutside(m, be, ref, i) ==
    IF i >= ref.maxSize THEN FALSE
    ELSE LET c == GetChar(m, be, ref, i) IN
         IF c < 0 THEN TRUE ELSE IF c = 0 THEN FALSE ELSE ReadsOutside(m, be, ref, i + 1)

\* whether getString reads outside the storage of its pointer
GetStringOutside(m, v, be, p) ==
    LET src == Ref(m.heap, v, p) IN
    ~IsNull(p) /\ src.valid /\ ~src.isRaw /\ ReadsOutside(m, be, src, 0)

\* getString
GetString(m, v, be, p) ==
    LET src == Ref(m.heap, v, p) IN
    IF IsNull(p) THEN <<>>
    ELSE IF ~src.valid THEN <<>>
    ELSE IF src.isRaw THEN [i \in 1 .. Strnlen(m, src, 0) |-> RawByte(m, src.seg, src.off + i - 1)]
    ELSE ReadChars(m, be, src, 0)

----------------------------------------------------------------------------
(* Entry tables and the table segments *)

\* the type tag of the table segment of a kind
TableType(kind) ==
    CASE kind = "clones" -> "SEG_TYPE_CLONES"
      [] kind = "lists" -> "SEG_TYPE_LISTS"
      [] kind = "nodes" -> "SEG_TYPE_NODES"
      [] kind = "hunks" -> "SEG_TYPE_HUNK"
      [] kind = "arrays" -> "SEG_TYPE_ARRAY"
      [] kind = "bitmap" -> "SEG_TYPE_BITMAP"

\* new CloneTable() and the like: no entry, an empty free list.  The records
\* the entries hold are left out, so a table has no addressable unit
NewTable(kind) ==
    [type |-> TableType(kind), nr |-> 0, lockers |-> 0, deleted |-> FALSE, localsSeg |-> 0,
     size |-> 0, buf |-> <<>>, first_free |-> HEAPENTRY_INVALID]

\* isValidEntry: an entry in use is tagged with its own index
IsValidEntry(table, idx) ==
    idx >= 0 /\ idx < Len(table.buf) /\ table.buf[idx + 1] = idx

\* the index allocEntry returns: the head of the free list, or the index of
\* the slot it appends
AllocEntryIndex(table) ==
    IF table.first_free # HEAPENTRY_INVALID THEN table.first_free ELSE Len(table.buf)

\* an allocEntry that never recycles: always a slot at the end
AllocEntryAppend(table) ==
    [table EXCEPT !.buf = Append(@, Len(table.buf))]

\* the table after allocEntry
AllocEntry(table) ==
    IF table.first_free # HEAPENTRY_INVALID
    THEN LET oldff == table.first_free IN
         [table EXCEPT !.first_free = table.buf[oldff + 1], !.buf[oldff + 1] = oldff]
    ELSE [table EXCEPT !.buf = Append(@, Len(table.buf))]

\* the table after freeEntry of an entry in use: the entry heads the free list
FreeEntry(table, idx) ==
    [table EXCEPT !.buf[idx + 1] = table.first_free, !.first_free = idx]

\* whether the cached segment of a kind is no table of the kind any more: the
\* allocators use _heap[_clonesSegId] and the like unchecked
StaleTable(s, kind) ==
    s.segIds[kind] # 0
    /\ ~(Occupied(s.heap, s.segIds[kind]) /\ At(s.heap, s.segIds[kind]).type = TableType(kind))

\* allocateClone, allocateList, allocateNode, allocateHunkEntry, allocateArray
\* and allocateBitmap on a manager whose cached segment is sound: the table
\* segment is made on the first call; reg is the address of the new entry
AllocateEntry(s, kind) ==
    LET s1 == IF s.segIds[kind] = 0
              THEN LET a == AllocSegment(s, NewTable(kind))
                   IN [a EXCEPT !.segIds[kind] = a.id]
              ELSE s
        seg == s1.segIds[kind]
        table == At(s1.heap, seg)
    IN [s1 EXCEPT !.heap = Put(@, seg, AllocEntry(table)),
                  !.reg = [segment |-> seg, offset |-> AllocEntryIndex(table)]]

\* whether freeArray or freeBitmap reads the type of a segment that is not
\* there: _heap[addr.getSegment()]->getType() on an empty slot or past the end
FreeUndefined(s, v, addr) ==
    ~Occupied(s.heap, RegGetSegment(v, addr.segment))

\* freeArray (kind "arrays", a null handle is ignored) and freeBitmap (kind
\* "bitmap") of an address whose slot holds a segment; id is 1 when the entry
\* was released
FreeTableEntry(s, v, kind, addr) ==
    LET seg == RegGetSegment(v, addr.segment)
        table == At(s.heap, seg)
    IN
    IF kind = "arrays" /\ IsNull(addr) THEN [s EXCEPT !.id = 0]
    ELSE IF table.type # TableType(kind)
    THEN Fail(s, IF kind = "arrays" THEN "Attempt to use non-array as array"
                 ELSE "Attempt to free non-bitmap as bitmap")
    ELSE IF ~IsValidEntry(table, addr.offset)
    THEN Fail(s, IF kind = "arrays" THEN "Attempt to use non-array as array"
                 ELSE "Attempt to free invalid entry as bitmap")
    ELSE [s EXCEPT !.heap = Put(@, seg, FreeEntry(table, addr.offset)), !.id = 1]

\* the last match is reported
FindSegmentByTypeLast(h, type) ==
    LET found == {i \in 0 .. Len(h) - 1 : At(h, i) # NULL /\ At(h, i).type = type}
    IN IF found = {} THEN 0 ELSE CHOOSE i \in found : \A j \in found : j <= i

\* the loop of findSegmentByType from slot i on
RECURSIVE FindSegmentFrom(_, _, _)
FindSegmentFrom(h, type, i) ==
    IF i >= Len(h) THEN 0
    ELSE IF At(h, i) # NULL /\ At(h, i).type = type THEN i
    ELSE FindSegmentFrom(h, type, i + 1)

\* findSegmentByType
FindSegmentByType(h, type) == FindSegmentFrom(h, type, 0)

----------------------------------------------------------------------------
(* Reset *)

\* the loop deallocates every slot in range, empty or not
RECURSIVE ResetLoopUnguarded(_, _, _)
ResetLoopUnguarded(s, v, i) ==
    IF s.err # "none" \/ i >= Len(s.heap) THEN s
    ELSE ResetLoopUnguarded(IF i >= 1 THEN Deallocate(s, v, i) ELSE s, v, i + 1)

\* the loop of resetSegMan from slot i on
RECURSIVE ResetLoop(_, _, _)
ResetLoop(s, v, i) ==
    IF s.err # "none" \/ i >= Len(s.heap) THEN s
    ELSE ResetLoop(IF At(s.heap, i) # NULL THEN Deallocate(s, v, i) ELSE s, v, i + 1)

\* resetSegMan
ResetSegMan(s, v, w) ==
    LET s1 == ResetLoop(s, v, 0) IN
    IF s1.err # "none" THEN s1
    ELSE [s1 EXCEPT !.heap = <<NULL>>, !.segIds = NoTables, !.classTable = CreateClassTable(w)]

----------------------------------------------------------------------------
(* History *)

RECURSIVE LiveFreed(_, _, _)
LiveFreed(l, freed, i) ==
    IF i > Len(freed) THEN l
    ELSE LiveFreed([l EXCEPT ![freed[i]] = 0], freed, i + 1)

RECURSIVE LiveAllocated(_, _, _)
LiveAllocated(l, allocs, i) ==
    IF i > Len(allocs) THEN l
    ELSE LiveAllocated([l EXCEPT ![allocs[i]] = @ + 1], allocs, i + 1)

\* the identifiers handed out and not freed since, after a call that did s
LiveAfter(l, s) == LiveAllocated(LiveFreed(l, s.freed, 1), s.allocs, 1)

\* the history of the script n under observation: n = 0 observes none
DiscFresh(n) == [n |-> n, k |-> 0, u |-> 0, ok |-> TRUE]

DiscBroken(n) == [n |-> n, k |-> 0, u |-> 0, ok |-> FALSE]

\* the object of script n, NULL when it has no segment
ScriptObj(h, m, n) == IF m[n] > 0 /\ m[n] < Len(h) THEN At(h, m[n]) ELSE NULL

\* the calls made on the observed script since it was unloaded, after the
\* call op on script target that did s: instantiate calls k, then
\* uninstantiate calls u; ok is lost when anything else changed the script
DiscAfter(d, op, target, s) ==
    LET n == d.n IN
    IF n = 0 THEN d
    ELSE IF s.segMap[n] = 0 THEN DiscFresh(n)
    ELSE IF op = "instantiateScript" /\ target = n
    THEN IF d.ok /\ d.u = 0 THEN [d EXCEPT !.k = @ + 1] ELSE DiscBroken(n)
    ELSE IF op = "uninstantiateScript" /\ target = n
    THEN IF d.ok /\ d.u < d.k THEN [d EXCEPT !.u = @ + 1] ELSE DiscBroken(n)
    ELSE IF scriptSegMap[n] = s.segMap[n]
            /\ ScriptObj(heap, scriptSegMap, n) = ScriptObj(s.heap, s.segMap, n)
    THEN d
    ELSE DiscBroken(n)

----------------------------------------------------------------------------
(* The calls *)

Start == [Machine(heap, scriptSegMap, classTable) EXCEPT !.segIds = segIds]

Call(op, a, b, c, ret, valid, s) ==
    [op |-> op, a |-> a, b |-> b, c |-> c, ret |-> ret, reg |-> s.reg, valid |-> valid,
     freed |-> s.freed, allocs |-> s.allocs, maxDepth |-> s.maxDepth]

WithinBounds(s) ==
    /\ Len(s.heap) <= MaxHeap + 1
    /\ \A i \in 1 .. Len(s.heap) : s.heap[i].lockers <= MaxLockers

Commit(s, l, op, target) ==
    /\ WithinBounds(s)
    /\ heap' = s.heap
    /\ scriptSegMap' = s.segMap
    /\ classTable' = s.classTable
    /\ err' = s.err
    /\ last' = l
    /\ live' = LiveAfter(live, s)
    /\ disc' = DiscAfter(disc, op, target, s)
    /\ writes' = IF op \in {"strcpy_", "strncpy", "memcpy"} THEN writes + 1 ELSE writes
    /\ segIds' = s.segIds
    /\ UNCHANGED <<sciVersion, world>>

\* the locals segment recorded in the Script that seg designates, 0 when seg
\* designates no Script
TargetLocals(h, v, seg) ==
    LET a == GetActualSegment(v, seg) IN
    IF a >= 1 /\ a < Len(h) /\ IsScript(At(h, a)) THEN At(h, a).localsSeg ELSE 0

AllocDynmemCall ==
    /\ err = "none"
    /\ \E s \in {AllocSegment(Start, NewDynMem(DynSize))} :
        Commit(s, Call("allocDynmem", DynSize, 0, 0, s.id, FALSE, s), "allocDynmem", 0)

DeallocateCall ==
    /\ err = "none"
    /\ \E seg \in SegIds :
        \E s \in {Deallocate(Start, sciVersion, seg)} :
            Commit(s, Call("deallocate", seg, TargetLocals(heap, sciVersion, seg), 0, 0, FALSE, s),
                   "deallocate", 0)

DeallocateScriptCall ==
    /\ err = "none"
    /\ \E nr \in Scripts(world) :
        \E s \in {DeallocateScript(Start, sciVersion, nr)} :
            Commit(s, Call("deallocateScript", nr, 0, 0, 0, FALSE, s), "deallocateScript", nr)

InstantiateScriptCall ==
    /\ err = "none"
    /\ \E nr \in Scripts(world) :
        \E s \in {InstantiateScript(Start, sciVersion, world, nr)} :
            Commit(s, Call("instantiateScript", nr, 0, 0, s.id, FALSE, s), "instantiateScript", nr)

UninstantiateScriptCall ==
    /\ err = "none"
    /\ \E nr \in Scripts(world) :
        \E s \in {UninstantiateScript(Start, sciVersion, world, nr, 1)} :
            Commit(s, Call("uninstantiateScript", nr, 0, 0, 0, FALSE, s), "uninstantiateScript", nr)

GetClassAddressCall ==
    /\ err = "none"
    /\ \E classnr \in ClassNumbers(world), lock \in LoadTypes, callerSegment \in CallerSegments :
        \E s \in {GetClassAddress(Start, sciVersion, world, classnr, lock, callerSegment)} :
            Commit(s, Call("getClassAddress", classnr, lock, callerSegment, 0, FALSE, s),
                   "getClassAddress", 0)

\* dereference of the pointers with a segment in S and an offset in O
DereferenceOf(S, O) ==
    /\ err = "none"
    /\ \E segment \in S, offset \in O :
        \E view \in {Dereference(heap, RegGetSegment(sciVersion, segment), offset)} :
            Commit(Start, Call("dereference", segment, offset, IF view.isRaw THEN 1 ELSE 0,
                               view.maxSize, view.valid, Start),
                   "dereference", 0)

DereferenceCall == DereferenceOf(SegIds, Offsets)

\* dereference of a pointer into the middle of a segment
DereferenceOffsetCall == DereferenceOf(0 .. MaxHeap, ViewOffsets)

\* the lookups that return without a side effect, all at once
LookupCall ==
    /\ err = "none"
    /\ \E seg \in SegIds :
        Commit(Start,
               Call("lookup", seg, 0, 0,
                    [obj |-> GetSegmentObj(heap, sciVersion, seg),
                     type |-> GetSegmentType(heap, sciVersion, seg),
                     seg |-> [t \in SegTypes |-> GetSegment(heap, sciVersion, seg, t)],
                     ifLoaded |-> GetScriptIfLoaded(Start, sciVersion, seg)],
                    FALSE, Start),
               "lookup", 0)

\* what getSegment was asked for and what it returned
SegmentCall(seg, type, ret) ==
    [op |-> "getSegment", type |-> type, a |-> seg, b |-> 0, c |-> 0, ret |-> ret,
     reg |-> NULL_REG, valid |-> ret > 0, freed |-> <<>>, allocs |-> <<>>, maxDepth |-> 0]

\* getSegment; a read past the end of _heap may fault, or hand back whatever
\* lies there
GetSegmentCall ==
    /\ err = "none"
    /\ \E seg \in SegIds, type \in SearchTypes :
        \E ret \in {GetSegment(heap, sciVersion, seg, type)} :
            \E e \in IF ret < 0 THEN {"none", "memory fault"} ELSE {"none"} :
                Commit([Start EXCEPT !.err = e], SegmentCall(seg, type, ret), "getSegment", 0)

\* getScript: the Script's slot comes back, or the call is fatal
GetScriptCall ==
    /\ err = "none"
    /\ \E seg \in SegIds :
        \E s \in {Fail(Start, GetScriptError(Start, sciVersion, seg))} :
            Commit(s, Call("getScript", seg, 0, 0,
                           IF s.err = "none" THEN GetActualSegment(sciVersion, seg) ELSE 0,
                           FALSE, s),
                   "getScript", 0)

FreeDynmemCall ==
    /\ err = "none"
    /\ \E segment \in SegIds :
        \E s \in {FreeDynmem(Start, sciVersion, segment)} :
            Commit(s, Call("freeDynmem", segment, 0, 0, s.id, FALSE, s), "freeDynmem", 0)

Accessors == {"derefBulkPtr", "derefRegPtr", "derefString"}

DerefCall ==
    /\ err = "none"
    /\ \E f \in Accessors, segment \in 0 .. MaxHeap, offset \in ViewOffsets, entries \in Counts :
        \E ptr \in {IF f = "derefBulkPtr"
                    THEN DerefBulkPtr(heap, sciVersion, segment, offset, entries)
                    ELSE IF f = "derefRegPtr"
                    THEN DerefRegPtr(heap, sciVersion, segment, offset, entries)
                    ELSE DerefString(heap, sciVersion, segment, offset, entries)} :
            Commit(Start, Call(f, segment, offset, entries, ptr, ~ptr.null, Start), f, 0)

\* what a copy or a scan was called with and what came of it
CopyCall(op, dest, src, str, n, ret, m) ==
    [op |-> op, a |-> dest.segment, b |-> dest.offset, c |-> n, ret |-> ret,
     src |-> src, str |-> str, oob |-> m.oob,
     reg |-> NULL_REG, valid |-> FALSE, freed |-> <<>>, allocs |-> <<>>, maxDepth |-> 0]

\* the program after a copy: once an access has left its storage it may have
\* faulted, or be running on with the rest of memory in an unknown state
Copied(m, l, op) ==
    \E e \in IF m.oob THEN {"none", "memory fault"} ELSE {"none"} :
        Commit([Start EXCEPT !.heap = m.heap, !.err = e], l, op, 0)

\* strcpy_(reg_t dest, const char *src)
StrcpyCall ==
    /\ err = "none"
    /\ writes < MaxWrites
    /\ \E dest \in Pointers, s \in Strings :
        \E m \in {StrcpyFrom(Mem(heap), sciVersion, IsBE(world), dest, HostString(s))} :
            Copied(m, CopyCall("strcpy_", dest, NULL_REG, s, UNBOUNDED, 0, m), "strcpy_")

\* strncpy(reg_t dest, reg_t src, size_t n), and strcpy_(reg_t dest,
\* reg_t src) when n is 0xFFFFFFFF
StrncpyCall ==
    /\ err = "none"
    /\ writes < MaxWrites
    /\ \E dest \in Pointers, src \in Pointers, n \in Lengths :
        \E m \in {Strncpy(Mem(heap), sciVersion, IsBE(world), dest, src, n)} :
            Copied(m, CopyCall("strncpy", dest, src, <<>>, n, 0, m), "strncpy")

\* memcpy(reg_t dest, reg_t src, size_t n)
MemcpyCall ==
    /\ err = "none"
    /\ writes < MaxWrites
    /\ \E dest \in Pointers, src \in Pointers, n \in Lengths :
        \E m \in {Memcpy(Mem(heap), sciVersion, IsBE(world), dest, src, n)} :
            Copied(m, CopyCall("memcpy", dest, src, <<>>, n, 0, m), "memcpy")

StrlenCall ==
    /\ err = "none"
    /\ \E str \in Pointers :
        \E ret \in {Strlen(Mem(heap), sciVersion, IsBE(world), str)} :
            \E m \in {IF ret < 0 THEN OutOfBounds(Mem(heap)) ELSE Mem(heap)} :
                Copied(m, CopyCall("strlen", str, NULL_REG, <<>>, 0, ret, m), "strlen")

GetStringCall ==
    /\ err = "none"
    /\ \E pointer \in Pointers :
        \E ret \in {GetString(Mem(heap), sciVersion, IsBE(world), pointer)} :
            \E m \in {IF GetStringOutside(Mem(heap), sciVersion, IsBE(world), pointer)
                       THEN OutOfBounds(Mem(heap)) ELSE Mem(heap)} :
                Copied(m, CopyCall("getString", pointer, NULL_REG, ret, 0, Len(ret), m),
                       "getString")

\* the name of the allocator of a table kind
Allocator(kind) ==
    CASE kind = "clones" -> "allocateClone"
      [] kind = "lists" -> "allocateList"
      [] kind = "nodes" -> "allocateNode"
      [] kind = "hunks" -> "allocateHunkEntry"
      [] kind = "arrays" -> "allocateArray"
      [] kind = "bitmap" -> "allocateBitmap"

\* allocateClone and the other allocators of table entries.  On a cached
\* segment that is no table of the kind the call works through a null or a
\* mistyped pointer: it may fault, or return with nothing known about what it
\* wrote
AllocateOf(K) ==
    /\ err = "none"
    /\ \E kind \in K :
        IF StaleTable(Start, kind)
        THEN \E e \in {"memory fault", "none"} :
                Commit([Start EXCEPT !.err = e],
                       Call(Allocator(kind), segIds[kind], 0, 0, -1, FALSE, Start),
                       Allocator(kind), 0)
        ELSE \E s \in {AllocateEntry(Start, kind)} :
                /\ Len(At(s.heap, s.segIds[kind]).buf) <= MaxEntries
                /\ Commit(s, Call(Allocator(kind), s.reg.segment, 0, 0, s.reg.offset, TRUE, s),
                          Allocator(kind), 0)

AllocateCall == AllocateOf(TableKinds)

\* the allocators of the tables whose entries are released one by one
AllocateArrayCall == AllocateOf({"arrays", "bitmap"})

\* allocateClone and allocateArray
AllocateCloneCall == AllocateOf({"clones", "arrays"})

\* the addresses of table entries a caller passes
EntryAddresses ==
    {NULL_REG} \cup {[segment |-> g, offset |-> o] : g \in 1 .. MaxHeap, o \in 0 .. MaxEntries}

\* freeArray and freeBitmap
FreeEntryCall ==
    /\ err = "none"
    /\ \E kind \in {"arrays", "bitmap"}, addr \in EntryAddresses :
        \E op \in {IF kind = "arrays" THEN "freeArray" ELSE "freeBitmap"} :
            IF FreeUndefined(Start, sciVersion, addr) /\ ~(kind = "arrays" /\ IsNull(addr))
            THEN \E e \in {"memory fault", "none"} :
                    Commit([Start EXCEPT !.err = e],
                           Call(op, addr.segment, addr.offset, 0, 0, FALSE, Start), op, 0)
            ELSE \E s \in {FreeTableEntry(Start, sciVersion, kind, addr)} :
                    Commit(s, Call(op, addr.segment, addr.offset, 0, s.id, s.id = 1, s), op, 0)

\* what findSegmentByType was asked for and what it returned
SearchCall(type, ret) ==
    [op |-> "findSegmentByType", type |-> type, a |-> 0, b |-> 0, c |-> 0, ret |-> ret,
     reg |-> NULL_REG, valid |-> ret # 0, freed |-> <<>>, allocs |-> <<>>, maxDepth |-> 0]

FindSegmentByTypeCall ==
    /\ err = "none"
    /\ \E type \in SearchTypes :
        Commit(Start, SearchCall(type, FindSegmentByType(heap, type)), "findSegmentByType", 0)

ResetSegManCall ==
    /\ err = "none"
    /\ \E s \in {ResetSegMan(Start, sciVersion, world)} :
        Commit(s, Call("resetSegMan", 0, 0, 0, 0, FALSE, s), "resetSegMan", 0)

\* SegManager::SegManager for a game W of a version in V, with the script
\* numbers N to observe
Constructed(W, V, N) ==
    /\ world \in W
    /\ sciVersion \in V
    /\ heap = <<NULL>>
    /\ scriptSegMap = [n \in Scripts(world) |-> 0]
    /\ classTable = CreateClassTable(world)
    /\ err = "none"
    /\ last = Call("SegManager", 0, 0, 0, 0, FALSE, Machine(<<NULL>>, <<>>, <<>>))
    /\ live = [id \in 0 .. MaxHeap + 1 |-> 0]
    /\ \E n \in N : disc = DiscFresh(n)
    /\ writes = 0
    /\ segIds = NoTables

Init == Constructed(Worlds, Versions, {0})

Next ==
    \/ AllocDynmemCall
    \/ DeallocateCall
    \/ DeallocateScriptCall
    \/ InstantiateScriptCall
    \/ UninstantiateScriptCall
    \/ GetClassAddressCall
    \/ DereferenceCall
    \/ DereferenceOffsetCall
    \/ LookupCall
    \/ GetSegmentCall
    \/ GetScriptCall
    \/ FreeDynmemCall
    \/ DerefCall
    \/ StrcpyCall
    \/ StrncpyCall
    \/ MemcpyCall
    \/ StrlenCall
    \/ GetStringCall
    \/ AllocateCall
    \/ AllocateArrayCall
    \/ AllocateCloneCall
    \/ FreeEntryCall
    \/ FindSegmentByTypeCall
    \/ ResetSegManCall

Spec == Init /\ [][Next]_vars

\* the directory: allocation, deallocation, dereference and reset, with
\* scripts that own locals segments
InitHeap == Constructed({WorldSingle}, Versions, {0})

NextHeap ==
    \/ AllocDynmemCall
    \/ DeallocateCall
    \/ InstantiateScriptCall
    \/ DereferenceCall
    \/ ResetSegManCall

SpecHeap == InitHeap /\ [][NextHeap]_vars

\* the script lifecycle
InitScript == Constructed(Worlds, {"SCI_VERSION_0_LATE", "SCI_VERSION_1_1"}, {1})

NextScript ==
    \/ InstantiateScriptCall
    \/ UninstantiateScriptCall
    \/ DeallocateScriptCall
    \/ DeallocateCall

SpecScript == InitScript /\ [][NextScript]_vars

\* class resolution: scripts are loaded and locked through getClassAddress
\* as well
InitClass == Constructed({WorldSelf, WorldChain}, {"SCI_VERSION_0_LATE", "SCI_VERSION_1_1"}, {0})

NextClass ==
    \/ InstantiateScriptCall
    \/ UninstantiateScriptCall
    \/ GetClassAddressCall
    \/ DeallocateScriptCall

SpecClass == InitClass /\ [][NextClass]_vars

\* lookups: identifiers are resolved at every entry point in both
\* addressing generations
InitLookup == Constructed({WorldLocals}, {"SCI_VERSION_1_1", "SCI_VERSION_3"}, {0})

NextLookup ==
    \/ AllocDynmemCall
    \/ InstantiateScriptCall
    \/ DeallocateCall
    \/ FreeDynmemCall
    \/ LookupCall
    \/ GetSegmentCall
    \/ GetScriptCall
    \/ DereferenceCall

SpecLookup == InitLookup /\ [][NextLookup]_vars

\* views: pointers into dynamic buffers, a script and its locals are
\* dereferenced, plainly and through the typed accessors
InitView == Constructed({WorldLocals}, {"SCI_VERSION_1_1"}, {0})

NextView ==
    \/ AllocDynmemCall
    \/ InstantiateScriptCall
    \/ DereferenceOffsetCall
    \/ DerefCall

SpecView == InitView /\ [][NextView]_vars

\* strings: host strings are written into dynamic buffers and the locals of
\* a script, measured and read back, on either byte order
InitString ==
    Constructed({WorldLocals, WorldLocalsBE, WorldLocalsSet}, {"SCI_VERSION_1_1"}, {0})

NextString ==
    \/ AllocDynmemCall
    \/ InstantiateScriptCall
    \/ StrcpyCall
    \/ StrlenCall
    \/ GetStringCall

SpecString == InitString /\ [][NextString]_vars

\* string copies between segments
InitStrncpy == Constructed({WorldLocals}, {"SCI_VERSION_1_1"}, {0})

NextStrncpy ==
    \/ AllocDynmemCall
    \/ InstantiateScriptCall
    \/ StrcpyCall
    \/ StrncpyCall

SpecStrncpy == InitStrncpy /\ [][NextStrncpy]_vars

\* byte copies between segments
InitMemcpy == Constructed({WorldLocals}, {"SCI_VERSION_1_1"}, {0})

NextMemcpy ==
    \/ AllocDynmemCall
    \/ InstantiateScriptCall
    \/ StrcpyCall
    \/ MemcpyCall

SpecMemcpy == InitMemcpy /\ [][NextMemcpy]_vars

\* entry tables: entries of arrays and bitmaps are allocated and released
InitEntry == Constructed({WorldSingle}, {"SCI_VERSION_1_1"}, {0})

NextEntry ==
    \/ AllocateArrayCall
    \/ FreeEntryCall

SpecEntry == InitEntry /\ [][NextEntry]_vars

\* searches: segments of several kinds come and go and are looked for by type
InitSearch == Constructed({WorldSingle}, {"SCI_VERSION_1_1"}, {0})

NextSearch ==
    \/ AllocDynmemCall
    \/ AllocateCloneCall
    \/ DeallocateCall
    \/ FindSegmentByTypeCall

SpecSearch == InitSearch /\ [][NextSearch]_vars

\* table segments beside scripts and buffers: the tables of clones and of
\* arrays are made, and segments are deallocated and reset
InitTable == Constructed({WorldSingle}, {"SCI_VERSION_1_1"}, {0})

NextTable ==
    \/ AllocateCloneCall
    \/ AllocDynmemCall
    \/ InstantiateScriptCall
    \/ DeallocateCall
    \/ ResetSegManCall

SpecTable == InitTable /\ [][NextTable]_vars

----------------------------------------------------------------------------
(* Properties of the directory, checked under SpecHeap *)

Min(S) == CHOOSE x \in S : \A y \in S : x <= y

FreeSlots(h) == {i \in 1 .. Len(h) - 1 : At(h, i) = NULL}

\* C1: a call that allocates installs its first segment at, and returns, the
\* smallest identifier >= 1 whose slot is empty; the directory grows, by one
\* slot, only when no slot in 1..size-1 is empty; allocDynmem changes no
\* other slot.
C1_AllocSmallestFree ==
    [][last'.allocs # <<>> =>
        LET id == last'.allocs[1]
            free == FreeSlots(heap)
        IN /\ id >= 1
           /\ free # {} => id = Min(free)
           /\ free = {} => id = Len(heap)
           /\ last'.op = "allocDynmem" =>
                /\ last'.ret = id
                /\ Len(heap') = (IF free = {} THEN Len(heap) + 1 ELSE Len(heap))
                /\ At(heap', id) = NewDynMem(DynSize)
                /\ \A j \in 0 .. Len(heap) - 1 : j # id => At(heap', j) = At(heap, j)
    ]_vars

\* allocDynmem has returned identifier 1 again while identifier 2, handed out
\* after it, is still in use
C1_Witness ==
    /\ last.op = "allocDynmem" /\ last.ret = 1
    /\ Occupied(heap, 2) /\ live[2] = 1

\* C2: a slot holds a segment exactly when its identifier was returned by
\* allocSegment and not deallocated since, and no identifier is handed out
\* twice without a deallocation in between.
C2_LiveIffOccupied ==
    \A id \in 1 .. MaxHeap + 1 :
        /\ live[id] <= 1
        /\ live[id] = 1 <=> Occupied(heap, id)

\* an identifier was freed while a later one stays in use
C2_Witness ==
    /\ last.op = "deallocate" /\ last.freed = <<1>>
    /\ live[1] = 0 /\ live[2] = 1 /\ Occupied(heap, 2) /\ ~Occupied(heap, 1)

\* C3: slot 0 is empty in every state and allocSegment never returns 0.
C3_SentinelEmpty ==
    /\ At(heap, 0) = NULL
    /\ live[0] = 0
    /\ \A i \in 1 .. Len(last.allocs) : last.allocs[i] # 0

\* resetSegMan has torn down a directory that held a script and its locals
C3_Witness ==
    /\ last.op = "resetSegMan" /\ Len(last.freed) >= 2
    /\ heap = <<NULL>>

\* C4: dereference of a pointer whose segment id is 0, is >= the directory
\* size or designates an empty slot returns an invalid view, raises no error
\* and changes nothing.
C4_DereferenceInvalid ==
    [][(last'.op = "dereference"
        /\ LET seg == RegGetSegment(sciVersion, last'.a)
           IN seg = 0 \/ seg >= Len(heap) \/ At(heap, seg) = NULL)
       => /\ ~last'.valid
          /\ err' = "none"
          /\ heap' = heap /\ scriptSegMap' = scriptSegMap /\ classTable' = classTable
    ]_vars

\* an invalid view came back for an identifier past the end of a directory
\* that holds segments
C4_Witness ==
    /\ last.op = "dereference" /\ ~last.valid
    /\ RegGetSegment(sciVersion, last.a) >= Len(heap) /\ Len(heap) > 1 /\ Occupied(heap, 1)

\* C5: deallocate is fatal, and changes no slot, when the resolved identifier
\* is below 1, is >= the directory size or designates an empty slot.
C5_DeallocateInvalidFatal ==
    [][(last'.op = "deallocate"
        /\ LET a == GetActualSegment(sciVersion, last'.a)
           IN a < 1 \/ a >= Len(heap) \/ At(heap, a) = NULL)
       => /\ err' # "none"
          /\ heap' = heap
    ]_vars

\* the second of two deallocate calls on the same identifier has failed
C5_Witness ==
    /\ last.op = "deallocate"
    /\ err = "Attempt to deallocate an already freed segment"
    /\ LET a == GetActualSegment(sciVersion, last.a)
       IN a >= 1 /\ a < Len(heap) /\ At(heap, a) = NULL /\ live[a] = 0

\* C6: deallocate of a Script that records a locals segment clears the locals
\* slot before the script's slot when the locals slot is occupied, skips it
\* without an error when it is empty, and leaves both slots empty.
C6_LocalsFirst ==
    [][(last'.op = "deallocate" /\ last'.b # 0)
       => LET a == GetActualSegment(sciVersion, last'.a)
              l == last'.b
              f == last'.freed
          IN /\ err' = "none"
             /\ At(heap', a) = NULL
             /\ At(heap', l) = NULL
             /\ f # <<>> /\ f[Len(f)] = a
             /\ At(heap, l) # NULL => \E i \in 1 .. Len(f) - 1 : f[i] = l
             /\ At(heap, l) = NULL => f = <<a>>
    ]_vars

\* a Script whose locals segment was freed before it has been deallocated
C6_Witness ==
    /\ last.op = "deallocate" /\ last.b # 0 /\ err = "none"
    /\ last.freed = <<GetActualSegment(sciVersion, last.a)>>

----------------------------------------------------------------------------
(* Properties of the script lifecycle, checked under SpecScript *)

\* the Script slots of h that are no longer Script slots of g
ClearedScripts(h, g) ==
    {id \in 1 .. Len(h) - 1 :
        IsScript(At(h, id)) /\ (id >= Len(g) \/ At(g, id) = NULL)}

\* C7: a Script's slot is cleared only when the script's locker count is 0
\* and it is marked deleted.
C7_ClearedOnlyWhenDeleted ==
    [][\A id \in ClearedScripts(heap, heap') :
            At(heap, id).lockers = 0 /\ At(heap, id).deleted
    ]_vars

OwnedRecords(w, ct, B, A) ==
    {i \in 1 .. Len(w.objs[B]) :
        /\ w.objs[B][i].type \in {"SCI_OBJ_OBJECT", "SCI_OBJ_CLASS"}
        /\ w.objs[B][i].super >= 0
        /\ ct[w.objs[B][i].super].script = A}

\* a call uninstantiate(B) is taking the last lock of B in the older VM
\* generation and returns, while A is loaded, B has records whose superclass
\* A owns and no third script has one
Propagates(B, A) ==
    /\ Before11(sciVersion)
    /\ last'.op = "uninstantiateScript" /\ last'.a = B /\ err' = "none"
    /\ A # B
    /\ OwnedRecords(world, classTable, B, A) # {}
    /\ \A D \in Scripts(world) \ {A, B} : OwnedRecords(world, classTable, D, A) = {}
    /\ LET b == ScriptObj(heap, scriptSegMap, B)
           a == ScriptObj(heap, scriptSegMap, A)
       IN /\ IsScript(b) /\ ~b.deleted /\ b.lockers = 1
          /\ IsScript(a) /\ ~a.deleted

C10_UninstantiateTerminates ==
    last.op = "uninstantiateScript"
    => /\ err # "stack overflow"
       /\ last.maxDepth <= TotalClasses(world) + 1

----------------------------------------------------------------------------
(* Properties of instantiate and uninstantiate, checked under SpecScript *)

\* the identifiers of allocs whose slot in h holds a Script
ScriptAllocs(h, allocs) ==
    {allocs[i] : i \in {j \in 1 .. Len(allocs) : IsScript(At(h, allocs[j]))}}

\* C11: instantiate of a script that has a segment and is not marked deleted
\* adds exactly one to its locker count, returns the segment id it had,
\* allocates nothing and reloads nothing: the script is otherwise the same
\* object, and every other slot, the script map and the class table are
\* unchanged.
C11_InstantiateLoadedLocks ==
    [][(last'.op = "instantiateScript"
        /\ IsScript(ScriptObj(heap, scriptSegMap, last'.a))
        /\ ~ScriptObj(heap, scriptSegMap, last'.a).deleted)
       => LET id == scriptSegMap[last'.a] IN
          /\ err' = "none"
          /\ last'.ret = id
          /\ last'.allocs = <<>> /\ last'.freed = <<>>
          /\ heap' = Put(heap, id, [At(heap, id) EXCEPT !.lockers = @ + 1])
          /\ scriptSegMap' = scriptSegMap
          /\ classTable' = classTable
    ]_vars

\* a second instantiate of a loaded script has returned its segment and
\* left it with two lockers
C11_Witness ==
    /\ last.op = "instantiateScript" /\ last.allocs = <<>> /\ err = "none"
    /\ last.ret = scriptSegMap[last.a] /\ last.ret # 0
    /\ At(heap, last.ret).lockers = 2

C13_UninstantiateNoOp ==
    [][(last'.op = "uninstantiateScript"
        /\ LET scr == ScriptObj(heap, scriptSegMap, last'.a)
           IN ~IsScript(scr) \/ scr.deleted)
       => /\ heap' = heap
          /\ scriptSegMap' = scriptSegMap
          /\ classTable' = classTable
          /\ err' = "none"
          /\ last'.freed = <<>> /\ last'.allocs = <<>>
    ]_vars

\* uninstantiate was called on a script marked deleted whose records derive
\* from a loaded script
C13_Witness ==
    /\ last.op = "uninstantiateScript" /\ err = "none"
    /\ world = WorldChain /\ Before11(sciVersion)
    /\ last.a = 2
    /\ ScriptObj(heap, scriptSegMap, 2).deleted
    /\ IsScript(ScriptObj(heap, scriptSegMap, 1))
    /\ ~ScriptObj(heap, scriptSegMap, 1).deleted
    /\ ScriptObj(heap, scriptSegMap, 1).lockers = 1

\* a call uninstantiate(S) on a loaded script S is returning
Unlocks(S) ==
    /\ last'.op = "uninstantiateScript" /\ last'.a = S /\ err' = "none"
    /\ IsScript(ScriptObj(heap, scriptSegMap, S))
    /\ ~ScriptObj(heap, scriptSegMap, S).deleted

\* the script in segment g was brought from a positive locker count to 0
BroughtToZero(g) ==
    /\ Occupied(heap, g) /\ IsScript(At(heap, g)) /\ At(heap, g).lockers > 0
    /\ At(heap', g).lockers = 0

\* C14: when uninstantiate(S) brings S's locker count to 0 no class-table
\* entry is left with an address in S's segment, and an entry resolved into
\* another segment is kept unless the walk brought that segment's script to
\* 0 as well; when the count stays above 0 the class table is unchanged.
C14_ClassEntriesCleared ==
    [][\A S \in Scripts(world) :
        Unlocks(S) =>
            LET id == scriptSegMap[S] IN
            IF At(heap', id).lockers = 0
            THEN /\ \A i \in DOMAIN classTable' : classTable'[i].reg.segment # id
                 /\ \A i \in DOMAIN classTable :
                        /\ classTable'[i].script = classTable[i].script
                        /\ classTable[i].reg.segment = id => classTable'[i].reg = NULL_REG
                        /\ classTable[i].reg.segment # id =>
                              \/ classTable'[i] = classTable[i]
                              \/ BroughtToZero(classTable[i].reg.segment)
            ELSE classTable' = classTable
    ]_vars

\* the last lock of a script was taken: its class is unresolved again and a
\* class of another script is still resolved
C14_Witness ==
    /\ last.op = "uninstantiateScript" /\ err = "none"
    /\ LET scr == ScriptObj(heap, scriptSegMap, last.a) IN
        /\ IsScript(scr) /\ scr.deleted
        /\ \E i \in DOMAIN classTable :
                classTable[i].script = last.a /\ classTable[i].reg = NULL_REG
        /\ \E i \in DOMAIN classTable :
                classTable[i].reg.segment \notin {0, scriptSegMap[last.a]}
    /\ disc.n = last.a /\ disc.ok /\ disc.k = 1 /\ disc.u = 1

\* C15: uninstantiate deallocates nothing: the same slots are occupied by
\* segments of the same kind and script number, the script map is unchanged,
\* and a script the call marks deleted is still in its slot, mapped, and
\* returned by getScriptIfLoaded.
C15_UninstantiateKeepsSegments ==
    [][last'.op = "uninstantiateScript" =>
        /\ Len(heap') = Len(heap)
        /\ \A id \in 0 .. Len(heap) - 1 :
                /\ At(heap', id).type = At(heap, id).type
                /\ At(heap', id).nr = At(heap, id).nr
                /\ At(heap', id).localsSeg = At(heap, id).localsSeg
        /\ scriptSegMap' = scriptSegMap
        /\ last'.freed = <<>> /\ last'.allocs = <<>>
        /\ \A S \in Scripts(world) :
                LET id == scriptSegMap[S] IN
                (id # 0 /\ Occupied(heap, id) /\ At(heap', id).deleted /\ ~At(heap, id).deleted)
                => /\ IsScript(At(heap', id)) /\ At(heap', id).nr = S
                   /\ GetScriptIfLoaded(Machine(heap', scriptSegMap', classTable'),
                                        sciVersion, scriptSegMap'[S]) = id
    ]_vars

\* uninstantiate has marked a script deleted and with it, through the walk,
\* a second one; both are still in their slots
C15_Witness ==
    /\ last.op = "uninstantiateScript" /\ err = "none"
    /\ world = WorldChain /\ last.a = 3
    /\ ScriptObj(heap, scriptSegMap, 3).deleted
    /\ ScriptObj(heap, scriptSegMap, 2).deleted
    /\ IsScript(ScriptObj(heap, scriptSegMap, 1))
    /\ ~ScriptObj(heap, scriptSegMap, 1).deleted

\* C17: no script has a negative locker count, in the states between calls
\* and in the state a walk is in when it exhausts the stack after it
\* uninstantiated again a script whose count was 0.
C17_LockersNonNegative ==
    \A id \in 0 .. Len(heap) - 1 : At(heap, id).lockers >= 0

\* a walk over cyclic ownership has gone back into scripts whose count was
\* 0, one of them with a self-owned superclass record
C17_Witness ==
    /\ world = WorldCycle /\ err = "stack overflow"
    /\ last.op = "uninstantiateScript"
    /\ \A S \in Scripts(world) :
            LET scr == ScriptObj(heap, scriptSegMap, S)
            IN IsScript(scr) /\ scr.lockers = 0 /\ ~scr.deleted

----------------------------------------------------------------------------
(* Properties of locking and class resolution, checked under SpecClass *)

\* between calls, a script in the directory h is marked deleted exactly when
\* its locker count is 0
MarkedIffUnlocked(h) ==
    \A id \in 1 .. Len(h) - 1 :
        IsScript(At(h, id)) => (At(h, id).deleted <=> At(h, id).lockers = 0)

\* C16: between calls a script that has a segment is marked deleted exactly
\* when its locker count is 0, and no call raises the locker count of a
\* script that is marked deleted and stays so.
C16_DeletedIffUnlocked ==
    [][/\ err = "none" => MarkedIffUnlocked(heap)
       /\ err' = "none" => MarkedIffUnlocked(heap')
       /\ \A id \in 1 .. Len(heap) - 1 :
            (/\ IsScript(At(heap, id)) /\ At(heap, id).deleted
             /\ id < Len(heap') /\ IsScript(At(heap', id)) /\ At(heap', id).deleted)
            => At(heap', id).lockers <= At(heap, id).lockers
    ]_vars

\* a class was asked for with a lock and its script has two lockers, while
\* another script is marked deleted with none
C16_Witness ==
    /\ last.op = "getClassAddress" /\ last.b = SCRIPT_GET_LOCK /\ err = "none"
    /\ last.allocs = <<>>
    /\ last.reg.segment # 0
    /\ At(heap, last.reg.segment).lockers = 2
    /\ ~At(heap, last.reg.segment).deleted
    /\ \E id \in 1 .. Len(heap) - 1 :
            IsScript(At(heap, id)) /\ At(heap, id).deleted /\ At(heap, id).lockers = 0

\* the superclass records of script S are all S's own, and there is one
SelfContained(S) ==
    /\ OwnedRecords(world, classTable, S, S) # {}
    /\ \A D \in Scripts(world) \ {S} : OwnedRecords(world, classTable, S, D) = {}

\* C18: when every superclass record of S is owned by S, the walk of
\* uninstantiate(S) makes no nested uninstantiate call and changes no other
\* segment; S's own count, 0 when the walk starts, is not taken below 0.
C18_SelfOwnedNoRecursion ==
    [][\A S \in Scripts(world) :
        (/\ Before11(sciVersion)
         /\ last'.op = "uninstantiateScript" /\ last'.a = S
         /\ SelfContained(S)
         /\ IsScript(ScriptObj(heap, scriptSegMap, S))
         /\ ~ScriptObj(heap, scriptSegMap, S).deleted)
        => LET id == scriptSegMap[S] IN
           /\ err' = "none"
           /\ last'.maxDepth = 1
           /\ Len(heap') = Len(heap)
           /\ \A j \in 0 .. Len(heap) - 1 : j # id => At(heap', j) = At(heap, j)
           /\ At(heap', id).lockers = At(heap, id).lockers - 1
           /\ At(heap', id).lockers >= 0
    ]_vars

\* the walk of a script with two self-owned superclass records has run while
\* another script was loaded
C18_Witness ==
    /\ world = WorldSelf /\ Before11(sciVersion) /\ err = "none"
    /\ last.op = "uninstantiateScript" /\ last.a = 1 /\ last.maxDepth = 1
    /\ ScriptObj(heap, scriptSegMap, 1).deleted
    /\ ScriptObj(heap, scriptSegMap, 1).lockers = 0
    /\ IsScript(ScriptObj(heap, scriptSegMap, 2))
    /\ ScriptObj(heap, scriptSegMap, 2).lockers = 1

\* C19: getClassAddress of a class that is resolved into a segment holding
\* a script returns the cached address, loads and allocates nothing, and
\* adds exactly one to that script's locker count when the caller's segment
\* differs from the class's segment and nothing when it is the same.
C19_ResolvedClassLocks ==
    [][(/\ last'.op = "getClassAddress"
        /\ last'.a \in DOMAIN classTable
        /\ classTable[last'.a].reg.segment # 0
        /\ Occupied(heap, classTable[last'.a].reg.segment)
        /\ IsScript(At(heap, classTable[last'.a].reg.segment)))
       => LET reg == classTable[last'.a].reg
              scr == At(heap, reg.segment)
          IN /\ err' = "none"
             /\ last'.reg = reg
             /\ last'.allocs = <<>> /\ last'.freed = <<>>
             /\ classTable' = classTable
             /\ scriptSegMap' = scriptSegMap
             /\ heap' = IF last'.c # reg.segment
                        THEN Put(heap, reg.segment, [scr EXCEPT !.lockers = @ + 1])
                        ELSE heap
    ]_vars

\* a caller in segment 1 asked for a class resolved into segment 1, whose
\* script keeps its single locker, a second script being loaded
C19_Witness ==
    /\ last.op = "getClassAddress" /\ err = "none"
    /\ last.reg.segment = 1 /\ last.c = 1
    /\ last.allocs = <<>>
    /\ IsScript(At(heap, 1)) /\ At(heap, 1).lockers = 1
    /\ Occupied(heap, 2)

\* the records of script nr define class c
Defines(w, nr, c) ==
    \E i \in 1 .. Len(w.objs[nr]) :
        w.objs[nr][i].type = "SCI_OBJ_CLASS" /\ w.objs[nr][i].species = c

\* C20: getClassAddress of an unresolved class, when the caller opted out of
\* loading, returns the null pointer and changes nothing; otherwise it
\* instantiates the owning script and returns the address the class is then
\* resolved to, and it is fatal exactly when the class is still unresolved.
C20_UnresolvedClassLoads ==
    [][(/\ last'.op = "getClassAddress"
        /\ last'.a \in DOMAIN classTable
        /\ classTable[last'.a].reg.segment = 0)
       => LET c == last'.a
              owner == classTable[c].script
          IN IF last'.b = SCRIPT_GET_DONT_LOAD
             THEN /\ err' = "none"
                  /\ last'.reg = NULL_REG
                  /\ last'.allocs = <<>> /\ last'.freed = <<>>
                  /\ heap' = heap
                  /\ classTable' = classTable
                  /\ scriptSegMap' = scriptSegMap
             ELSE /\ IsScript(ScriptObj(heap', scriptSegMap', owner))
                  /\ ~ScriptObj(heap', scriptSegMap', owner).deleted
                  /\ ScriptObj(heap', scriptSegMap', owner).lockers > 0
                  /\ ~IsScript(ScriptObj(heap, scriptSegMap, owner))
                        => last'.allocs = <<scriptSegMap'[owner]>>
                  /\ err' # "none" <=> classTable'[c].reg.segment = 0
                  /\ Defines(world, owner, c) <=> classTable'[c].reg.segment # 0
                  /\ err' = "none" =>
                        /\ last'.reg = classTable'[c].reg
                        /\ last'.reg.segment = scriptSegMap'[owner]
    ]_vars

\* a caller asked for the class that no script defines: its owning script is
\* loaded all the same and the call is fatal
C20_Witness ==
    /\ world = WorldSelf /\ last.op = "getClassAddress" /\ last.a = 2
    /\ err = "[VM] Trying to instantiate class by instantiating script failed"
    /\ last.allocs # <<>>
    /\ IsScript(ScriptObj(heap, scriptSegMap, 2))
    /\ classTable[2].reg = NULL_REG

----------------------------------------------------------------------------
(* Properties of views and typed accessors, checked under SpecView *)

\* the view of the pointer the last call was given
LastView == Dereference(heap, RegGetSegment(sciVersion, last.a), last.b)

\* the kind of storage the accessor f hands out
WantsRaw(f) == f # "derefRegPtr"

\* C21: a typed accessor returns null whenever the view of the pointer is of
\* the other kind than the accessor expects: derefBulkPtr and derefString on
\* cell storage, derefRegPtr on byte storage.
C21_KindMismatchNull ==
    (last.op \in Accessors /\ LastView.valid /\ LastView.isRaw # WantsRaw(last.op))
        => last.ret.null

\* C22: derefBulkPtr and derefString on a valid byte view return null exactly
\* when the count exceeds the view's maxSize and the view's storage otherwise;
\* on an invalid pointer they return null; no case is fatal or changes state.
C22_RawAccessorBounds ==
    [][last'.op \in {"derefBulkPtr", "derefString"}
       => LET seg == RegGetSegment(sciVersion, last'.a)
              ret == Dereference(heap, seg, last'.b)
          IN /\ err' = "none"
             /\ heap' = heap /\ scriptSegMap' = scriptSegMap /\ classTable' = classTable
             /\ ~ret.valid => last'.ret.null
             /\ (ret.valid /\ ret.isRaw) =>
                    /\ last'.ret.null <=> last'.c > ret.maxSize
                    /\ ~last'.ret.null =>
                          last'.ret = [null |-> FALSE, isRaw |-> TRUE, segment |-> seg,
                                       offset |-> last'.b]
    ]_vars

\* a request for all the bytes that remain from the middle of a dynamic
\* buffer got the storage
C22_Witness ==
    /\ last.op = "derefString" /\ last.b > 0
    /\ LastView.valid /\ LastView.isRaw /\ last.c = LastView.maxSize
    /\ ~last.ret.null /\ last.ret.offset = last.b

UnitsFrom(mobj, offset) ==
    IF mobj.type = "SEG_TYPE_LOCALS" THEN Len(mobj.buf) - (offset \div 2)
    ELSE Len(mobj.buf) - offset

----------------------------------------------------------------------------
(* Properties of identifier resolution, checked under SpecLookup *)

\* the slot an identifier stands for in the generation of version v
Slot(v, id) == IF v = "SCI_VERSION_3" THEN id % (SegMask + 1) ELSE id

\* the type of the segment in a slot, "SEG_TYPE_INVALID" when there is none
TypeIn(h, slot) == IF Occupied(h, slot) THEN At(h, slot).type ELSE "SEG_TYPE_INVALID"

\* C25: in the generation that masks, getSegment, getSegmentType,
\* getSegmentObj, getScript, getScriptIfLoaded, deallocate, dereference and
\* freeDynmem act on the slot (id & 0x3FFF); in the other generation they act
\* on the slot id.
C25_EntryPointsMask ==
    [][LET slot == Slot(sciVersion, last'.a)
           type == TypeIn(heap, slot)
       IN
       /\ last'.op = "lookup" =>
            /\ last'.ret.obj = (IF type = "SEG_TYPE_INVALID" THEN 0 ELSE slot)
            /\ last'.ret.type = type
            /\ \A t \in SegTypes : last'.ret.seg[t] = (IF type = t THEN slot ELSE 0)
            /\ last'.ret.ifLoaded = (IF type = "SEG_TYPE_SCRIPT" THEN slot ELSE 0)
       /\ last'.op = "getScript" =>
            /\ err' = "none" <=> type = "SEG_TYPE_SCRIPT"
            /\ err' = "none" => last'.ret = slot
       /\ last'.op = "deallocate" =>
            /\ err' = "none" <=> type # "SEG_TYPE_INVALID"
            /\ err' = "none" => (last'.freed # <<>> /\ last'.freed[Len(last'.freed)] = slot)
            /\ err' # "none" => heap' = heap
       /\ last'.op = "dereference" =>
            (last'.valid <=> type # "SEG_TYPE_INVALID")
       /\ last'.op = "freeDynmem" =>
            /\ last'.ret = 1 <=> type = "SEG_TYPE_DYNMEM"
            /\ last'.ret = 1 => last'.freed = <<slot>>
            /\ last'.ret = 0 => heap' = heap
    ]_vars

\* in the generation that masks, an identifier with a bit above the low 14
\* was looked up and the segment in the slot of its low bits came back
C25_Witness ==
    /\ sciVersion = "SCI_VERSION_3"
    /\ last.op = "lookup" /\ last.a = SegMask + 2
    /\ last.ret.obj = 1 /\ last.ret.type = "SEG_TYPE_DYNMEM"

----------------------------------------------------------------------------
(* Properties of strings, checked under SpecString *)

\* the view and storage of the destination of the last call
LastDest == Ref(heap, sciVersion, [segment |-> last.a, offset |-> last.b])

\* two strings of the same characters
SameBytes(s1, s2) == Len(s1) = Len(s2) /\ \A i \in 1 .. Len(s1) : s1[i] = s2[i]

\* C26: strcpy_(dest, s) followed by getString(dest) returns the characters
\* of s, for a raw and for a cell destination whose maxSize is larger than
\* the length of s.
C26_StrcpyGetStringRoundTrip ==
    [][(/\ last.op = "strcpy_" /\ last'.op = "getString"
        /\ last'.a = last.a /\ last'.b = last.b
        /\ LastDest.valid /\ LastDest.maxSize > Len(last.str))
       => /\ SameBytes(last'.str, last.str)
          /\ ~last.oob
    ]_vars

\* a string of two characters came back from cells it was written to at an
\* odd offset
C26_Witness ==
    /\ last.op = "getString" /\ SameBytes(last.str, <<65, 66>>)
    /\ LastDest.valid /\ ~LastDest.isRaw /\ LastDest.skipByte /\ writes = 1

\* C27: strcpy_ never writes outside the view of its destination, also when
\* the string is one longer than the view's maxSize.
C27_StrcpyStaysInside ==
    (last.op = "strcpy_" /\ LastDest.valid) => ~last.oob

\* C30: strlen on a valid raw view is the index of the first zero byte within
\* maxSize, and maxSize when there is none; strlen of the null pointer or of
\* an invalid pointer is 0.
C30_StrlenRaw ==
    last.op = "strlen" =>
        /\ (last.a = 0 \/ ~LastDest.valid) => last.ret = 0
        /\ (LastDest.valid /\ LastDest.isRaw) =>
              LET bytes == BufOf(Mem(heap), LastDest.seg) IN
              /\ last.ret \in 0 .. LastDest.maxSize
              /\ \A i \in 1 .. last.ret : bytes[LastDest.off + i] # 0
              /\ last.ret < LastDest.maxSize => bytes[LastDest.off + last.ret + 1] = 0
              /\ ~last.oob /\ err = "none"

\* a string written into a dynamic buffer was measured up to its terminator
C30_Witness ==
    /\ last.op = "strlen" /\ LastDest.valid /\ LastDest.isRaw
    /\ last.ret = 2 /\ last.ret < LastDest.maxSize
    /\ At(heap, LastDest.seg).type = "SEG_TYPE_DYNMEM"

----------------------------------------------------------------------------
(* Properties of copies, checked under SpecStrncpy and SpecMemcpy *)

\* the view and storage of the source pointer of the last call, before it
SrcBefore == Ref(heap, sciVersion, last'.src)

DestBefore == Ref(heap, sciVersion, [segment |-> last'.a, offset |-> last'.b])

\* C28: strncpy with a raw destination, here a dynamic buffer, and a length
\* n other than 0xFFFFFFFF leaves zero in every byte of the n-byte
\* destination range from the place of the source's terminator on, for a raw
\* and for a cell source.
C28_StrncpyZeroPads ==
    [][(/\ last'.op = "strncpy" /\ last'.c # UNBOUNDED /\ ~last'.oob
        /\ DestBefore.valid /\ DestBefore.isRaw /\ last'.c <= DestBefore.maxSize
        /\ At(heap, DestBefore.seg).type = "SEG_TYPE_DYNMEM"
        /\ SrcBefore.valid /\ SrcBefore.seg # DestBefore.seg
        /\ Strlen(Mem(heap), sciVersion, IsBE(world), last'.src) \in 0 .. last'.c - 1)
       => \A i \in Strlen(Mem(heap), sciVersion, IsBE(world), last'.src) .. last'.c - 1 :
              RawByte(Mem(heap'), DestBefore.seg, DestBefore.off + i) = 0
    ]_vars

\* C29: memcpy(dest, src, n) is a no-op when either pointer is invalid or n
\* exceeds the maxSize of either view.
C29_MemcpyRefuses ==
    [][(/\ last'.op = "memcpy"
        /\ \/ ~DestBefore.valid \/ ~SrcBefore.valid
           \/ UnsignedLess(DestBefore.maxSize, last'.c)
           \/ UnsignedLess(SrcBefore.maxSize, last'.c))
       => heap' = heap /\ ~last'.oob /\ err' = "none"
    ]_vars

----------------------------------------------------------------------------
(* Properties of the lookups, checked under SpecLookup *)

\* C31: freeDynmem returns true and empties the slot exactly when the
\* pointer's segment id is in range and holds a live dynamic buffer; for
\* id 0, an id out of range, an empty slot or a segment of another kind it
\* returns false, raises no fatal error and leaves the directory as it was,
\* so a second freeDynmem of the same pointer right after the first returns
\* false.
C31_FreeDynmemExactly ==
    [][last'.op = "freeDynmem" =>
        LET slot == RegGetSegment(sciVersion, last'.a) IN
        /\ err' = "none"
        /\ last'.ret \in {0, 1}
        /\ last'.ret = 1 <=> TypeIn(heap, slot) = "SEG_TYPE_DYNMEM"
        /\ last'.ret = 1 => heap' = Put(heap, slot, NULL)
        /\ last'.ret = 0 => heap' = heap
        /\ scriptSegMap' = scriptSegMap /\ classTable' = classTable
        /\ (last.op = "freeDynmem" /\ last.ret = 1 /\ last.a = last'.a) => last'.ret = 0
    ]_vars

\* a dynamic buffer was freed and the same pointer freed again: the second
\* call returned false on the slot the first had emptied
C31_Witness ==
    /\ last.op = "freeDynmem" /\ last.ret = 0
    /\ RegGetSegment(sciVersion, last.a) \in 1 .. Len(heap) - 1
    /\ At(heap, RegGetSegment(sciVersion, last.a)) = NULL
    /\ \E i \in 1 .. Len(heap) - 1 : At(heap, i).type = "SEG_TYPE_SCRIPT"

\* C32: getSegment(id, expectedType) returns the segment in the resolved
\* slot exactly when the resolved id is in 1..size-1, the slot is occupied and
\* the segment's type tag equals expectedType; in every other case it returns
\* none; it never changes state.
C32_GetSegmentExactly ==
    [][last'.op = "getSegment" =>
        LET slot == Slot(sciVersion, last'.a) IN
        /\ err' = "none"
        /\ heap' = heap /\ scriptSegMap' = scriptSegMap /\ classTable' = classTable
        /\ last'.ret = (IF slot \in 1 .. Len(heap) - 1 /\ At(heap, slot) # NULL
                           /\ At(heap, slot).type = last'.type
                        THEN slot ELSE 0)
    ]_vars

----------------------------------------------------------------------------
(* Properties of the entry tables, checked under SpecEntry *)

\* whether slot seg holds a table in which entry idx is in use
ValidIn(h, seg, idx) == Occupied(h, seg) /\ IsValidEntry(At(h, seg), idx)

EntryAllocators == {"allocateArray", "allocateBitmap"}

EntryReleasers == {"freeArray", "freeBitmap"}

\* C33: allocEntry never returns an index that is in use, and the index is in
\* use from then on; freeEntry of an index makes isValidEntry of it false, and
\* it stays false until an allocEntry returns that index again, no other call
\* changing which entries are in use; an allocEntry that follows the freeEntry
\* of an index returns that index.
C33_EntryReuse ==
    [][/\ (last'.op \in EntryAllocators /\ last'.valid) =>
            /\ ~ValidIn(heap, last'.a, last'.ret)
            /\ ValidIn(heap', last'.a, last'.ret)
       /\ (last'.op \in EntryReleasers /\ last'.ret = 1) =>
            /\ ValidIn(heap, last'.a, last'.b)
            /\ ~ValidIn(heap', last'.a, last'.b)
       /\ \A seg \in 1 .. MaxHeap, idx \in 0 .. MaxEntries :
            ValidIn(heap', seg, idx) # ValidIn(heap, seg, idx) =>
                \/ last'.op \in EntryAllocators /\ last'.valid
                   /\ last'.a = seg /\ last'.ret = idx
                \/ last'.op \in EntryReleasers /\ last'.ret = 1
                   /\ last'.a = seg /\ last'.b = idx
       /\ (last.op \in EntryReleasers /\ last.ret = 1
           /\ last'.op \in EntryAllocators /\ last'.valid /\ last'.a = last.a) =>
            last'.ret = last.b
    ]_vars

\* entry 0 of a table of two entries was released and the next allocation
\* returned index 0 again
C33_Witness ==
    /\ last.op = "allocateArray" /\ last.valid /\ last.ret = 0
    /\ Len(At(heap, last.a).buf) = 2
    /\ ValidIn(heap, last.a, 0) /\ ValidIn(heap, last.a, 1)

----------------------------------------------------------------------------
(* Properties of the search by type, checked under SpecSearch *)

\* the identifiers whose slot holds a segment of a type
SlotsOfType(h, type) == {i \in 0 .. Len(h) - 1 : At(h, i) # NULL /\ At(h, i).type = type}

\* C34: findSegmentByType(type) returns the smallest identifier whose slot
\* holds a segment with that type tag, and 0 when no live segment has the
\* type; it never returns the id of an empty slot.
C34_FindSmallestOfType ==
    [][last'.op = "findSegmentByType" =>
        LET found == SlotsOfType(heap, last'.type) IN
        /\ err' = "none" /\ heap' = heap
        /\ found = {} => last'.ret = 0
        /\ found # {} => last'.ret = Min(found) /\ At(heap, last'.ret) # NULL
    ]_vars

\* two segments of the type searched for are live, the lower slots are empty
\* or of another type, and the search returned the lower of the two
C34_Witness ==
    /\ last.op = "findSegmentByType" /\ last.ret = 2
    /\ At(heap, 1) # NULL
    /\ Cardinality(SlotsOfType(heap, last.type)) = 2

----------------------------------------------------------------------------
(* Properties of the script map, checked under SpecScript *)

\* the slots of directory h that hold a Script
ScriptSlots(h) == {i \in 1 .. Len(h) - 1 : At(h, i) # NULL /\ IsScript(At(h, i))}

\* every entry of map m points at a Script of its number, and every Script is
\* the one its number is mapped to
ScriptMapSound(h, m) ==
    /\ \A n \in DOMAIN m :
        m[n] # 0 => (m[n] \in ScriptSlots(h) /\ At(h, m[n]).nr = n)
    /\ \A i \in ScriptSlots(h) :
        At(h, i).nr \in DOMAIN m /\ m[At(h, i).nr] = i

\* C35: in every state the program reaches without a fatal error, each entry
\* of the script map points at an occupied slot holding the Script of that
\* number and there is at most one Script per number; instantiating a script
\* that is mapped allocates no second Script, and once a Script has been
\* deallocated its number is mapped to 0.
C35_ScriptMapSound ==
    [][err' = "none" =>
        /\ ScriptMapSound(heap', scriptSegMap')
        /\ (last'.op = "instantiateScript" /\ scriptSegMap[last'.a] # 0) =>
                /\ scriptSegMap'[last'.a] = scriptSegMap[last'.a]
                /\ ScriptSlots(heap') = ScriptSlots(heap)
        /\ last'.op \in {"deallocate", "deallocateScript"} =>
                \A i \in ScriptSlots(heap) :
                    (\E k \in 1 .. Len(last'.freed) : last'.freed[k] = i)
                        => GetScriptSegment(Machine(heap', scriptSegMap', classTable'),
                                            At(heap, i).nr) = 0
    ]_vars

\* a script was deallocated while another stayed loaded: its number is mapped
\* to 0 and the other is still mapped to its Script
C35_Witness ==
    /\ err = "none"
    /\ last.op = "deallocateScript" /\ last.freed # <<>>
    /\ scriptSegMap[last.a] = 0
    /\ \E n \in DOMAIN scriptSegMap : scriptSegMap[n] \in ScriptSlots(heap)

----------------------------------------------------------------------------
(* Properties of the class table, checked under SpecClass *)

\* C36: in every reachable state each class-table entry with a non-null
\* resolved address refers to a segment id whose slot holds a Script that is
\* not marked deleted, and no call has ended in getScript's fatal error for a
\* segment that is not in memory.
C36_ResolvedClassesLive ==
    /\ \A c \in DOMAIN classTable :
        classTable[c].reg.segment # 0 =>
            /\ Occupied(heap, classTable[c].reg.segment)
            /\ IsScript(At(heap, classTable[c].reg.segment))
            /\ ~At(heap, classTable[c].reg.segment).deleted
    /\ err # "SegManager::getScript(): seg id is not in memory"

----------------------------------------------------------------------------
(* Properties of deallocate and reset, checked under SpecHeap and SpecTable *)

\* the slot of the locals segment that belongs to the Script in slot: the
\* locals segment of the script's number that the Script records, if it is
\* still there
OwnLocals(h, slot) ==
    LET scr == At(h, slot) IN
    IF IsScript(scr) /\ scr.localsSeg # 0 /\ Occupied(h, scr.localsSeg)
       /\ At(h, scr.localsSeg).type = "SEG_TYPE_LOCALS" /\ At(h, scr.localsSeg).nr = scr.nr
    THEN {scr.localsSeg}
    ELSE {}

\* C37: deallocate(id) empties the slot of id and, for a Script, the slot of
\* that script's own locals segment; every other slot of the directory is
\* unchanged, also when the id the Script records for its locals has been
\* taken over by an unrelated segment.
C37_DeallocateFrame ==
    [][(last'.op = "deallocate" /\ err' = "none") =>
        LET slot == GetActualSegment(sciVersion, last'.a)
            gone == {slot} \cup OwnLocals(heap, slot)
        IN
        /\ Len(heap') = Len(heap)
        /\ \A i \in 0 .. Len(heap) - 1 :
            At(heap', i) = (IF i \in gone THEN NULL ELSE At(heap, i))
    ]_vars

\* C38: in every reachable state each cached table segment id is 0 or the
\* id of an occupied slot that holds the table segment of exactly that kind,
\* at most one segment of each table kind exists, and no allocator has worked
\* through the pointer of an empty slot.
C38_CachedTablesSound ==
    /\ \A kind \in TableKinds :
        /\ segIds[kind] = 0
           \/ (Occupied(heap, segIds[kind]) /\ At(heap, segIds[kind]).type = TableType(kind))
        /\ Cardinality(SlotsOfType(heap, TableType(kind))) <= 1
    /\ err # "memory fault"

----------------------------------------------------------------------------
(* Properties of the scans of cell storage, checked under SpecString *)

\* the characters a non-raw view holds: two to a cell, less the one skipped
ViewChars(ref) == (2 * ref.maxSize) - (IF ref.skipByte THEN 1 ELSE 0)

\* C39: strlen and getString on a valid cell-addressed view read only cells
\* inside the view, and the length they return is no more than the view
\* holds, also when the cells hold no zero byte before the view's bound.
C39_CellScansStayInside ==
    (last.op \in {"strlen", "getString"} /\ LastDest.valid /\ ~LastDest.isRaw) =>
        (~last.oob /\ last.ret >= 0 /\ last.ret <= ViewChars(LastDest))

====
